---- MODULE Spec2Model ----
(***************************************************************************)
(* Model of the matching/recommendation core of src/main.py:               *)
(*   fetch_paginated_jobs, get_certifications / search_coursera_for_skill, *)
(*   extract_skills and recommended_jobs.                                  *)
(* Each function is a call that starts from the idle state with inputs     *)
(* drawn from bounded sets, runs its loop one iteration per step, and ends *)
(* in an outcome ("returned" or "raised") before the state is reset.       *)
(* Text is a sequence of one-character strings wherever the code looks     *)
(* inside it (split, strip, lower, substring, join).                       *)
(***************************************************************************)
EXTENDS Integers, Sequences, FiniteSets, TLC

VARIABLES
    op,             \* the call in progress: "idle", "fetch", "cert", "extract", "rank"
    \* ---- fetch_paginated_jobs
    max_pages,      \* argument max_pages
    uses_default,   \* TRUE when the caller passed the module-level DEFAULT_PARAMS
    default_params, \* the "nextPage" entry of DEFAULT_PARAMS (ABSENT when not set)
    params,         \* the "nextPage" entry of the params mapping of this call
    page_num,       \* loop index of `for page_num in range(max_pages)`
    next_page,      \* local next_page
    all_jobs,       \* local all_jobs (the accumulator)
    requests,       \* history: the nextPage parameter sent with each request
    responses,      \* history: the response received for each request
    f_out,          \* "none" while running, then "returned" or "raised"
    f_result,       \* the returned list
    \* ---- get_certifications
    specialization, \* argument specialization (text)
    skills,         \* local skills (multi-skill path), or <<specialization>>
    c_i,            \* number of skills processed so far
    courses,        \* local courses: the concatenation before deduplication
    origin,         \* history: for each entry of courses, the query it came from
    found,          \* history: what search_coursera_for_skill returned per skill
    answered,       \* history: per skill, "page", "failed" or "skipped" (no request)
    served,         \* number of queries of this call answered with a page
    c_out,          \* "none" while running, then "returned" or "raised"
    c_result,       \* the returned list
    c_from,         \* history: for each returned entry, the query it came from
    c_view,         \* TRUE when the call comes from CertificationsView.get
    c_raw,          \* the specialization as the caller or the request gave it
    queried,        \* history: the skill of each call of search_coursera_for_skill
    replies,        \* history: the anchors of the page the catalog answered each of them with
    \* ---- extract_skills
    nlp,            \* module-level nlp: "loaded", or "none" when spacy.load failed
    e_text,         \* argument text
    e_model,        \* history: what the model did: "unavailable", "raised", "empty", "entities"
    e_ents,         \* history: the texts of docs.ents, or <<>> when there are none
    e_path,         \* history: "model", "scan" or "default": where the result came from
    e_out,          \* "none" while running, then "returned" or "raised"
    e_result,       \* the returned text
    \* ---- recommended_jobs
    r_user,         \* argument user_skills (text)
    r_listings,     \* argument job_listings: the caller's frame, rows in frame order
    r_sim,          \* history: cosine_sim[0], one similarity per listing, by position
    r_out,          \* "none" while running, then "returned" or "raised"
    r_result,       \* the returned frame
    \* ---- recommended_skills
    s_user,         \* argument user_skills (text)
    s_listings,     \* argument job_listings: the Skills text of each row
    s_number,       \* argument skill_number
    s_out,          \* "none" while running, then "returned" or "raised"
    s_result,       \* the returned list
    s_columns,      \* the columns of the caller's frame job_listings
    s_rerun,        \* "none", or the process that ran the same call again: "same" or "other"
    s_second,       \* what the call returned when it was run again
    \* ---- the endpoints RecommendedJobsView.post and RecommendedSkillsView.post
    v_view,         \* the endpoint that is serving: "none", "jobs" or "skills"
    v_request,      \* request.data
    v_file,         \* the file at job_listings_path
    v_corpus,       \* history: the frame handed to recommended_jobs / recommended_skills
    v_ranked,       \* history: what that call returned
    v_status,       \* 0 while serving, then the status of the response
    v_body,         \* the body of the response
    \* ---- load_job_listings
    l_file,         \* the file at file_path
    l_out,          \* "none" while running, then "returned" or "raised"
    l_listings,     \* the returned frame
    \* ---- get_job_links and the endpoint JobLinksView.post
    k_view,         \* TRUE when JobLinksView.post is serving
    k_request,      \* request.data of the endpoint
    k_jobs,         \* argument recommended_jobs: the frame handed to get_job_links
    k_out,          \* "none" while running, then "returned" or "raised"
    k_links,        \* the returned frame: its rows {jobProvider, url}
    k_status,       \* 0 until the endpoint has answered, then the status
    k_body          \* the body of the endpoint's response

fetchVars == <<max_pages, uses_default, default_params, params, page_num,
               next_page, all_jobs, requests, responses, f_out, f_result>>

certVars == <<specialization, skills, c_i, courses, origin, found, answered,
              served, c_out, c_result, c_from, c_view, c_raw, queried, replies>>

extractVars == <<e_text, e_model, e_ents, e_path, e_out, e_result>>

rankVars == <<r_user, r_listings, r_sim, r_out, r_result>>

skillsVars == <<s_user, s_listings, s_number, s_out, s_result, s_columns, s_rerun,
                s_second>>

viewVars == <<v_view, v_request, v_file, v_corpus, v_ranked, v_status, v_body>>

loadVars == <<l_file, l_out, l_listings>>

linksVars == <<k_view, k_request, k_jobs, k_out, k_links, k_status, k_body>>

vars == <<op, nlp, fetchVars, certVars, extractVars, rankVars, skillsVars, viewVars,
          loadVars, linksVars>>

\* what a step of one function leaves alone: the state of the others
FetchFrame ==
    UNCHANGED <<nlp, certVars, extractVars, rankVars, skillsVars, viewVars, loadVars, linksVars>>
CertFrame ==
    UNCHANGED <<nlp, fetchVars, extractVars, rankVars, skillsVars, viewVars, loadVars, linksVars>>
ExtractFrame ==
    UNCHANGED <<nlp, fetchVars, certVars, rankVars, skillsVars, viewVars, loadVars, linksVars>>
RankFrame ==
    UNCHANGED <<nlp, fetchVars, certVars, extractVars, skillsVars, viewVars, loadVars, linksVars>>
SkillsFrame ==
    UNCHANGED <<nlp, fetchVars, certVars, extractVars, rankVars, viewVars, loadVars, linksVars>>
LoadFrame ==
    UNCHANGED <<nlp, fetchVars, certVars, extractVars, rankVars, skillsVars, viewVars, linksVars>>
ViewFrame ==
    UNCHANGED <<nlp, fetchVars, certVars, extractVars, rankVars, skillsVars, loadVars, linksVars>>
LinksFrame ==
    UNCHANGED <<nlp, fetchVars, certVars, extractVars, rankVars, skillsVars, viewVars, loadVars>>

(***************************************************************************)
(* Bounds of the model.                                                    *)
(***************************************************************************)
MaxPages == 3
MaxJobsPerPage == 1
MaxSpecLen == 3         \* length of the generated specialization texts
MaxServed == 2          \* queries of one call that the catalog answers with a page
MaxTextLen == 4         \* length of the texts given to extract_skills
MaxEnts == 2            \* entities the model finds in one text
MaxRows == 3            \* listings of a corpus
MaxScore == 2           \* levels of a similarity: 0 is 0.0, MaxScore is 1.0
MaxNumber == 2              \* the largest integer skill_number
MaxLinkJobs == 2        \* rows of a frame given to get_job_links
MaxProviders == 3       \* providers of one job

(***************************************************************************)
(* Generic helpers.                                                        *)
(***************************************************************************)
SeqsUpTo(S, n) == UNION {[1..k -> S] : k \in 0..n}

RECURSIVE Flatten(_)
Flatten(ss) == IF ss = <<>> THEN <<>> ELSE Head(ss) \o Flatten(Tail(ss))

Min(a, b) == IF a < b THEN a ELSE b

\* s[:n]
Take(s, n) == SubSeq(s, 1, Min(n, Len(s)))

\* Python values that are not strings or lists
NONE == "<None>"        \* None / JSON null / key absent from a JSON object
ABSENT == "<absent>"    \* key absent from the params mapping

(***************************************************************************)
(* fetch_paginated_jobs (src/main.py 331-376)                              *)
(***************************************************************************)
Jobs == {"j1", "j2"}
Tokens == {"t1", "t2"}

\* what data.get("nextPage") can yield
CursorValues == {NONE, ""} \cup Tokens
\* the lists a "jobs" entry can hold
JobsValues == SeqsUpTo(Jobs, MaxJobsPerPage)

\* One round trip of requests.get + raise_for_status + response.json():
\*   "error"   transport error, timeout or non-2xx status (RequestException)
\*   "badjson" 2xx whose body is not JSON: response.json() raises
\*             requests.exceptions.JSONDecodeError, a RequestException
\*   "list"    2xx whose body is JSON but not an object (a top-level list)
\*   "object"  2xx whose body is a JSON object; hasJobs is FALSE when the
\*             "jobs" entry is absent (data.get gives []) or null (gives None)
Responses ==
    {[kind |-> k, hasJobs |-> FALSE, jobs |-> <<>>, nextPage |-> NONE] :
        k \in {"error", "badjson", "list"}}
    \cup [kind : {"object"}, hasJobs : {TRUE}, jobs : JobsValues, nextPage : CursorValues]
    \cup [kind : {"object"}, hasJobs : {FALSE}, jobs : {<<>>}, nextPage : CursorValues]

\* Python truthiness of a cursor value (None and "" are falsy)
Truthy(v) == v \notin {NONE, ""}
\* `jobs = data.get("jobs", [])` of an object response, and its truthiness
JobsOf(resp) == IF resp.hasJobs THEN resp.jobs ELSE <<>>
HasJobs(resp) == JobsOf(resp) # <<>>

\* `for page_num in range(max_pages)`: another iteration runs
LoopContinuesOffByOne(n, limit) == n <= limit
LoopContinues(n, limit) == n < limit

\* lines 348-349: the cursor is written into the caller's mapping
InjectCursorNever(p, cursor) == p
InjectCursor(p, cursor) == IF Truthy(cursor) THEN cursor ELSE p

\* line 349 assigns into the mapping object the caller passed: when that
\* object is the module's DEFAULT_PARAMS (lines 381-387), the module-level
\* mapping holds the cursor too
ModuleMappingCopied(shared, sent, module) == module
ModuleMapping(shared, sent, module) == IF shared THEN sent ELSE module

\* lines 351-373: the body of one iteration after the request was sent.
\* ctl is "continue" (next iteration), "break" (leave the loop and return)
\* or "raise" (an exception no handler of the function catches).
HandlePageRetry(resp, acc, cursor) ==
    IF resp.kind \in {"error", "badjson"}
    THEN [ctl |-> "continue", all_jobs |-> acc, next_page |-> cursor]
    ELSE IF resp.kind = "list"
    THEN [ctl |-> "raise", all_jobs |-> acc, next_page |-> cursor]
    ELSE IF ~HasJobs(resp)
    THEN [ctl |-> "break", all_jobs |-> acc, next_page |-> cursor]
    ELSE [ctl |-> IF Truthy(resp.nextPage) THEN "continue" ELSE "break",
          all_jobs |-> acc \o JobsOf(resp), next_page |-> resp.nextPage]

HandlePageSkipEmpty(resp, acc, cursor) ==
    IF resp.kind \in {"error", "badjson"}
    THEN [ctl |-> "break", all_jobs |-> acc, next_page |-> cursor]
    ELSE IF resp.kind = "list"
    THEN [ctl |-> "raise", all_jobs |-> acc, next_page |-> cursor]
    ELSE IF ~HasJobs(resp)
    THEN [ctl |-> "continue", all_jobs |-> acc, next_page |-> cursor]
    ELSE [ctl |-> IF Truthy(resp.nextPage) THEN "continue" ELSE "break",
          all_jobs |-> acc \o JobsOf(resp), next_page |-> resp.nextPage]

HandlePageIgnoreCursor(resp, acc, cursor) ==
    IF resp.kind \in {"error", "badjson"}
    THEN [ctl |-> "break", all_jobs |-> acc, next_page |-> cursor]
    ELSE IF resp.kind = "list"
    THEN [ctl |-> "raise", all_jobs |-> acc, next_page |-> cursor]
    ELSE IF ~HasJobs(resp)
    THEN [ctl |-> "break", all_jobs |-> acc, next_page |-> cursor]
    ELSE [ctl |-> "continue",
          all_jobs |-> acc \o JobsOf(resp), next_page |-> resp.nextPage]

HandlePage(resp, acc, cursor) ==
    IF resp.kind \in {"error", "badjson"}
    THEN \* except requests.exceptions.RequestException: break
         [ctl |-> "break", all_jobs |-> acc, next_page |-> cursor]
    ELSE IF resp.kind = "list"
    THEN \* data.get on a list: AttributeError, not a RequestException
         [ctl |-> "raise", all_jobs |-> acc, next_page |-> cursor]
    ELSE IF ~HasJobs(resp)
    THEN \* if not jobs: break
         [ctl |-> "break", all_jobs |-> acc, next_page |-> cursor]
    ELSE \* extend, read the cursor, break when it is falsy
         [ctl |-> IF Truthy(resp.nextPage) THEN "continue" ELSE "break",
          all_jobs |-> acc \o JobsOf(resp), next_page |-> resp.nextPage]

FetchIdle ==
    /\ max_pages = 0 /\ uses_default = FALSE /\ params = ABSENT
    /\ page_num = 0 /\ next_page = "" /\ all_jobs = <<>>
    /\ requests = <<>> /\ responses = <<>>
    /\ f_out = "none" /\ f_result = <<>>

\* a call fetch_paginated_jobs(api_url, params, headers, max_pages)
CallFetch ==
    /\ FetchFrame
    /\ op = "idle"
    /\ op' = "fetch"
    /\ \E m \in 0..MaxPages, d \in BOOLEAN :
          /\ max_pages' = m
          /\ uses_default' = d
          /\ params' = IF d THEN default_params ELSE ABSENT
    /\ page_num' = 0
    /\ next_page' = ""
    /\ all_jobs' = <<>>
    /\ requests' = <<>>
    /\ responses' = <<>>
    /\ f_out' = "none"
    /\ f_result' = <<>>
    /\ UNCHANGED default_params

\* one iteration of the loop: inject the cursor, send the request, handle the response
FetchPage ==
    /\ FetchFrame
    /\ op = "fetch" /\ f_out = "none"
    /\ LoopContinues(page_num, max_pages)
    /\ \E resp \in Responses :
         LET sent == InjectCursor(params, next_page)
             h == HandlePage(resp, all_jobs, next_page)
         IN /\ params' = sent
            /\ default_params' = ModuleMapping(uses_default, sent, default_params)
            /\ requests' = Append(requests, sent)
            /\ responses' = Append(responses, resp)
            /\ all_jobs' = h.all_jobs
            /\ next_page' = h.next_page
            /\ page_num' = page_num + 1
            /\ f_out' = CASE h.ctl = "continue" -> "none"
                          [] h.ctl = "break" -> "returned"
                          [] h.ctl = "raise" -> "raised"
            /\ f_result' = IF h.ctl = "break" THEN h.all_jobs ELSE <<>>
    /\ UNCHANGED <<op, max_pages, uses_default>>

\* range(max_pages) is exhausted: lines 375-376
FetchExhausted ==
    /\ FetchFrame
    /\ op = "fetch" /\ f_out = "none"
    /\ ~LoopContinues(page_num, max_pages)
    /\ f_out' = "returned"
    /\ f_result' = all_jobs
    /\ UNCHANGED <<op, max_pages, uses_default, default_params, params, page_num,
                   next_page, all_jobs, requests, responses>>

\* the call is over; DEFAULT_PARAMS lives on in the module
FetchDone ==
    /\ FetchFrame
    /\ op = "fetch" /\ f_out # "none"
    /\ op' = "idle"
    /\ max_pages' = 0 /\ uses_default' = FALSE /\ params' = ABSENT
    /\ page_num' = 0 /\ next_page' = "" /\ all_jobs' = <<>>
    /\ requests' = <<>> /\ responses' = <<>>
    /\ f_out' = "none" /\ f_result' = <<>>
    /\ UNCHANGED default_params

NextFetch == CallFetch \/ FetchPage \/ FetchExhausted \/ FetchDone


(***************************************************************************)
(* Text: str.strip, str.split, `in`                                        *)
(***************************************************************************)
IsSpace(c) == c = " "

RECURSIVE LStrip(_)
LStrip(s) == IF s # <<>> /\ IsSpace(Head(s)) THEN LStrip(Tail(s)) ELSE s

RECURSIVE RStrip(_)
RStrip(s) == IF s # <<>> /\ IsSpace(s[Len(s)]) THEN RStrip(SubSeq(s, 1, Len(s) - 1)) ELSE s

\* s.strip()
Strip(s) == RStrip(LStrip(s))

\* c in s, for a character c
HasChar(s, c) == \E i \in 1..Len(s) : s[i] = c

\* s.split(c) for a one-character separator c
RECURSIVE SplitChar(_, _)
SplitChar(s, c) ==
    IF ~HasChar(s, c) THEN <<s>>
    ELSE LET i == CHOOSE j \in 1..Len(s) : s[j] = c /\ \A k \in 1..(j - 1) : s[k] # c
         IN <<SubSeq(s, 1, i - 1)>> \o SplitChar(SubSeq(s, i + 1, Len(s)), c)

RECURSIVE MapStrip(_)
MapStrip(ps) == IF ps = <<>> THEN <<>> ELSE <<Strip(Head(ps))>> \o MapStrip(Tail(ps))

(***************************************************************************)
(* Text: str.lower, substring test, str.join, str.split                    *)
(***************************************************************************)
LowerChar(c) == IF c = "G" THEN "g" ELSE c

\* s.lower()
Lower(s) == [i \in 1..Len(s) |-> LowerChar(s[i])]

\* sub in s
Contains(s, sub) ==
    \E i \in 0..(Len(s) - Len(sub)) : SubSeq(s, i + 1, i + Len(sub)) = sub

\* sep.join(parts)
RECURSIVE Join(_, _)
Join(parts, sep) ==
    IF parts = <<>> THEN <<>>
    ELSE IF Len(parts) = 1 THEN parts[1]
    ELSE parts[1] \o sep \o Join(Tail(parts), sep)

\* s.split(sep) for a non-empty separator
RECURSIVE Split(_, _)
Split(s, sep) ==
    IF ~Contains(s, sep) THEN <<s>>
    ELSE LET i == CHOOSE j \in 0..(Len(s) - Len(sep)) :
                     /\ SubSeq(s, j + 1, j + Len(sep)) = sep
                     /\ \A k \in 0..(j - 1) : SubSeq(s, k + 1, k + Len(sep)) # sep
         IN <<SubSeq(s, 1, i)>> \o Split(SubSeq(s, i + Len(sep) + 1, Len(s)), sep)

CommaSpace == <<",", " ">>

(***************************************************************************)
(* search_coursera_for_skill (src/main.py 225-301)                         *)
(***************************************************************************)
\* An anchor of the result page: its class attribute ("exact" is the full
\* class string of line 262, "card" a class that only contains
\* 'CommonCard-titleLink', "plain" any other), its href, the string of its
\* h3 child, its aria-label and its text; NONE where the page has none.
Anchor(cls, href, h3, aria, text) ==
    [cls |-> cls, href |-> href, h3 |-> h3, aria |-> aria, text |-> text]

StartsWithHttp(h) == h \in {"https://www.coursera.org/learn/ml", "https://x.org/learn/py"}
ContainsLearn(h) == h \in {"/learn/ml", "/learn/go", "https://www.coursera.org/learn/ml",
                           "https://x.org/learn/py"}
\* "https://www.coursera.org" + href, for the relative hrefs of the pages
Prefixed(h) == CASE h = "/learn/ml" -> "https://www.coursera.org/learn/ml"
                 [] h = "/learn/go" -> "https://www.coursera.org/learn/go"
                 [] h = "/degrees/ds" -> "https://www.coursera.org/degrees/ds"
                 [] OTHER -> h
\* link.text.strip() for the texts of the pages
StripText(t) == CASE t = " ML " -> "ML"
                  [] t = "  " -> ""
                  [] OTHER -> t

PageExact ==   \* four cards matched by the exact class, and a card that is not
    << Anchor("exact", "/learn/ml", "ML", NONE, "ML"),
       Anchor("exact", "/degrees/ds", NONE, "DS", "DS"),
       Anchor("exact", "https://x.org/learn/py", NONE, NONE, "Py"),
       Anchor("exact", "/learn/go", "Go", NONE, "Go"),
       Anchor("card", "/learn/ml", "ml", NONE, "ml") >>
PageSameTitle ==   \* one title twice (and once in lower case), then another title
    << Anchor("exact", "https://www.coursera.org/learn/ml", "ML", NONE, "ML"),
       Anchor("exact", "/learn/go", "ml", NONE, "ml"),
       Anchor("exact", "/degrees/ds", "ML", NONE, "ML"),
       Anchor("exact", "/degrees/ds", "DS", NONE, "DS") >>
PageCard ==    \* no exact class; cards, one without href, one with padded h3
    << Anchor("plain", "/learn/go", "Go", NONE, "Go"),
       Anchor("card", "/learn/ml", "ml", NONE, "ml"),
       Anchor("card", NONE, "DS", NONE, "DS"),
       Anchor("card", "/degrees/ds", " ML ", NONE, " ML ") >>
PageLearn ==   \* no card classes; links found by their /learn/ href
    << Anchor("plain", "/degrees/ds", NONE, NONE, "DS"),
       Anchor("plain", "/learn/ml", NONE, NONE, " ML "),
       Anchor("plain", "/learn/go", NONE, "", "  "),
       Anchor("plain", "https://x.org/learn/py", NONE, "Py", "") >>
PageUntitled ==   \* exact-class anchors without any title, and a /learn/ link
    << Anchor("exact", "/learn/ml", NONE, NONE, ""),
       Anchor("plain", "/learn/go", NONE, NONE, "Go") >>
PageNoLinks == \* no anchor that any pattern matches
    << Anchor("plain", "/degrees/ds", NONE, NONE, "DS") >>

Pages == {PageExact, PageSameTitle, PageCard, PageLearn, PageUntitled, PageNoLinks}

\* One round trip of requests.get + raise_for_status + parsing:
\*   "error"   network error, timeout or non-2xx status (RequestException)
\*   "garbled" a response whose handling raises some other Exception
\*   "page"    a page that is parsed
CatalogResponses ==
    {[kind |-> k, anchors |-> <<>>] : k \in {"error", "garbled"}}
    \cup [kind : {"page"}, anchors : Pages]

\* lines 262-270: the three patterns, each tried when the one before found no link
SelectLinks(anchors) ==
    LET exact == SelectSeq(anchors, LAMBDA a : a.cls = "exact")
        card == SelectSeq(anchors, LAMBDA a : a.cls \in {"exact", "card"})
        learn == SelectSeq(anchors, LAMBDA a : a.href # NONE /\ ContainsLearn(a.href))
    IN IF exact # <<>> THEN exact ELSE IF card # <<>> THEN card ELSE learn

\* lines 276-282
TitleOf(link) ==
    IF link.h3 \notin {NONE, ""} THEN link.h3
    ELSE IF link.aria \notin {NONE, ""} THEN link.aria
    ELSE IF link.text # "" THEN StripText(link.text)
    ELSE NONE

\* lines 284-291
RECURSIVE ExtractCourses(_)
ExtractCourses(links) ==
    IF links = <<>> THEN <<>>
    ELSE LET link == Head(links)
             title == TitleOf(link)
             here == IF title \notin {NONE, ""} /\ link.href \notin {NONE, ""}
                     THEN << <<title, IF StartsWithHttp(link.href) THEN link.href
                                      ELSE Prefixed(link.href)>> >>
                     ELSE <<>>
         IN here \o ExtractCourses(Tail(links))

\* line 238: no request is made for an empty or blank skill
IsBlank(skill) == Strip(skill) = <<>>

\* lines 296-301: every Exception of the try block is caught, so the search
\* never raises into its caller
SearchRaisesUncaught(skill, resp) == ~IsBlank(skill) /\ resp.kind = "garbled"
SearchRaises(skill, resp) == FALSE

\* the value search_coursera_for_skill returns given the catalog's response
SearchCoursera(skill, resp) ==
    IF IsBlank(skill) THEN <<>>
    ELSE IF resp.kind # "page" THEN <<>>     \* both except clauses return []
    ELSE ExtractCourses(SelectLinks(resp.anchors))

(***************************************************************************)
(* get_certifications (src/main.py 165-222)                                *)
(***************************************************************************)
limit_per_skill == 3
MaxSkills == 10

SpecChars == {"a", "b", ",", " "}

\* eleven skills: ten times "a", then "b"
LongSpecialization == Flatten([k \in 1..MaxSkills |-> <<"a", ",">>]) \o <<"b">>

Specializations == SeqsUpTo(SpecChars, MaxSpecLen) \cup {LongSpecialization}

\* line 179
IsMulti(spec) == HasChar(spec, ",")

\* line 181
ParseSkillsUncut(spec) ==
    SelectSeq(MapStrip(SplitChar(spec, ",")), LAMBDA p : p # <<>>)
ParseSkills(spec) ==
    Take(SelectSeq(MapStrip(SplitChar(spec, ",")), LAMBDA p : p # <<>>), MaxSkills)

\* lines 191 and 219
LimitCourses(cs) == Take(cs, limit_per_skill)

\* lines 195-201
RECURSIVE TagCourses(_, _)
TagCoursesBlank(cs, skill) ==
    [k \in 1..Len(cs) |-> <<cs[k][1], cs[k][2], <<>>>>]
TagCourses(cs, skill) ==
    IF cs = <<>> THEN <<>>
    ELSE << IF Len(Head(cs)) = 2 THEN <<Head(cs)[1], Head(cs)[2], skill>> ELSE Head(cs) >>
         \o TagCourses(Tail(cs), skill)

\* lines 204-209: the positions of cs that the walk keeps
RECURSIVE KeptFrom(_, _, _)
KeptFromLast(cs, k, seen) ==
    IF k > Len(cs) THEN <<>>
    ELSE IF \E j \in (k + 1)..Len(cs) : cs[j][1] = cs[k][1]
         THEN KeptFrom(cs, k + 1, seen)
         ELSE <<k>> \o KeptFrom(cs, k + 1, seen)
KeptFrom(cs, k, seen) ==
    IF k > Len(cs) THEN <<>>
    ELSE IF cs[k][1] \notin seen
         THEN <<k>> \o KeptFrom(cs, k + 1, seen \cup {cs[k][1]})
         ELSE KeptFrom(cs, k + 1, seen)

\* views.py 429-430
ViewMaxSkills == 10

\* views.py 421-436: what CertificationsView.get hands to get_certifications
ViewSpecialization(raw) ==
    IF HasChar(raw, ",")
    THEN Join(Take(SelectSeq(MapStrip(SplitChar(raw, ",")), LAMBDA p : p # <<>>),
                   ViewMaxSkills),
              CommaSpace)
    ELSE raw

CertIdle ==
    /\ specialization = <<>> /\ skills = <<>> /\ c_i = 0
    /\ courses = <<>> /\ origin = <<>> /\ found = <<>> /\ answered = <<>>
    /\ served = 0 /\ c_out = "none" /\ c_result = <<>> /\ c_from = <<>>
    /\ c_view = FALSE /\ c_raw = <<>> /\ queried = <<>> /\ replies = <<>>

\* a call get_certifications(specialization), lines 175-182, made directly
\* or by CertificationsView.get (views.py 406-436), which answers 400
\* without a call when the parameter is empty
CallCert ==
    /\ CertFrame
    /\ op = "idle"
    /\ op' = "cert"
    /\ \E raw \in Specializations, view \in BOOLEAN :
          /\ view => raw # <<>>
          /\ c_raw' = raw
          /\ c_view' = view
          /\ LET spec == IF view THEN ViewSpecialization(raw) ELSE raw
             IN /\ specialization' = spec
                /\ skills' = IF IsMulti(spec) THEN ParseSkills(spec) ELSE <<spec>>
    /\ queried' = <<>> /\ replies' = <<>>
    /\ c_i' = 0
    /\ courses' = <<>> /\ origin' = <<>> /\ found' = <<>> /\ answered' = <<>>
    /\ served' = 0
    /\ c_out' = "none" /\ c_result' = <<>> /\ c_from' = <<>>

\* the search for the next skill and what is done with its result:
\* one iteration of the loop of lines 185-201, or lines 216-219
CertSearch ==
    /\ CertFrame
    /\ op = "cert" /\ c_out = "none"
    /\ c_i < Len(skills)
    /\ LET skill == skills[c_i + 1] IN
       \E resp \in CatalogResponses :
          /\ IsBlank(skill) => resp.kind = "error"       \* no request: one case
          /\ resp.kind = "page" => served < MaxServed
          /\ IF SearchRaises(skill, resp)
             THEN /\ c_out' = "raised"
                  /\ UNCHANGED <<found, answered, served, courses, origin>>
                  /\ queried' = Append(queried, skill)
                  /\ replies' = Append(replies, resp.anchors)
             ELSE
             LET skill_courses == SearchCoursera(skill, resp)
                 limited_courses == LimitCourses(skill_courses)
                 added == IF IsMulti(specialization)
                          THEN TagCourses(limited_courses, skill)
                          ELSE limited_courses
             IN /\ found' = Append(found, skill_courses)
                /\ answered' = Append(answered,
                                  IF IsBlank(skill) THEN "skipped"
                                  ELSE IF resp.kind = "page" THEN "page" ELSE "failed")
                /\ served' = IF resp.kind = "page" THEN served + 1 ELSE served
                /\ courses' = courses \o added
                /\ origin' = origin \o [k \in 1..Len(added) |-> c_i + 1]
                /\ queried' = Append(queried, skill)
                /\ replies' = Append(replies, resp.anchors)
                /\ c_out' = "none"
    /\ c_i' = c_i + 1
    /\ UNCHANGED <<op, specialization, skills, c_result, c_from, c_view, c_raw>>

\* lines 203-212 (multi-skill path) or line 222 (single skill)
CertReturn ==
    /\ CertFrame
    /\ op = "cert" /\ c_out = "none"
    /\ c_i = Len(skills)
    /\ LET kept == IF IsMulti(specialization)
                   THEN KeptFrom(courses, 1, {})
                   ELSE [k \in 1..Len(courses) |-> k]
       IN /\ c_result' = [k \in 1..Len(kept) |-> courses[kept[k]]]
          /\ c_from' = [k \in 1..Len(kept) |-> origin[kept[k]]]
    /\ c_out' = "returned"
    /\ UNCHANGED <<op, specialization, skills, c_i, courses, origin, found, answered, served,
                   c_view, c_raw, queried, replies>>

CertDone ==
    /\ CertFrame
    /\ op = "cert" /\ c_out # "none"
    /\ op' = "idle"
    /\ specialization' = <<>> /\ skills' = <<>> /\ c_i' = 0
    /\ courses' = <<>> /\ origin' = <<>> /\ found' = <<>> /\ answered' = <<>>
    /\ served' = 0 /\ c_out' = "none" /\ c_result' = <<>> /\ c_from' = <<>>
    /\ c_view' = FALSE /\ c_raw' = <<>> /\ queried' = <<>> /\ replies' = <<>>

NextCert == CallCert \/ CertSearch \/ CertReturn \/ CertDone


(***************************************************************************)
(* extract_skills (src/main.py 63-99)                                      *)
(***************************************************************************)
TextChars == {"g", "o", "G", ",", " "}
Texts == SeqsUpTo(TextChars, MaxTextLen)

\* The entries of COMMON_TECH_SKILLS (lines 28-44) that can occur in a text
\* over TextChars: every other entry has a character outside lower(TextChars).
COMMON_TECH_SKILLS == << <<"g", "o">> >>

\* line 97
DefaultSkills ==
    << <<"p", "y", "t", "h", "o", "n">>,
       <<"j", "a", "v", "a", "s", "c", "r", "i", "p", "t">>,
       <<"h", "t", "m", "l">>, <<"c", "s", "s">>, <<"s", "q", "l">> >>

\* What nlp(text).ents can be: up to MaxEnts spans of the text, in text
\* order and not overlapping. A span begins and ends on a letter: spaCy's
\* entities neither begin nor end on whitespace, and spans that begin or
\* end on punctuation are left out.
IsLetter(c) == c \notin {",", " "}
Spans(text) == {sp \in (1..Len(text)) \X (1..Len(text)) :
                   /\ sp[1] <= sp[2]
                   /\ IsLetter(text[sp[1]]) /\ IsLetter(text[sp[2]])}
SpanLists(text) ==
    {sl \in SeqsUpTo(Spans(text), MaxEnts) :
        \A k \in 1..(Len(sl) - 1) : sl[k][2] < sl[k + 1][1]}
EntTexts(text, sl) == [k \in 1..Len(sl) |-> SubSeq(text, sl[k][1], sl[k][2])]

\* the orders list(set(xs)) can come out in: every listing of the distinct values
SetOrders(xs) ==
    LET S == {xs[k] : k \in 1..Len(xs)}
    IN {o \in [1..Cardinality(S) -> S] : \A i, j \in 1..Cardinality(S) : i # j => o[i] # o[j]}

\* lines 76-80 before the set: the lowered entity texts
Lowered(ents) == [k \in 1..Len(ents) |-> Lower(ents[k])]

\* the scan without line 88's lowering of the text
ScanVocabularyCased(text) ==
    SelectSeq(COMMON_TECH_SKILLS, LAMBDA skill : Contains(text, skill))
\* lines 88-93: the vocabulary entries that occur in the lowered text, in list order
ScanVocabulary(text) ==
    SelectSeq(COMMON_TECH_SKILLS, LAMBDA skill : Contains(Lower(text), skill))

\* lines 87-99
Fallback(text) ==
    LET found_skills == ScanVocabulary(text)
    IN IF found_skills = <<>>
       THEN [path |-> "default", result |-> Join(DefaultSkills, CommaSpace)]
       ELSE [path |-> "scan", result |-> Join(found_skills, CommaSpace)]

ExtractIdle ==
    /\ e_text = <<>> /\ e_model = "none" /\ e_ents = <<>> /\ e_path = "none"
    /\ e_out = "none" /\ e_result = <<>>

\* a call extract_skills(text)
CallExtract ==
    /\ ExtractFrame
    /\ op = "idle"
    /\ op' = "extract"
    /\ e_text' \in Texts
    /\ e_model' = "none" /\ e_ents' = <<>> /\ e_path' = "none"
    /\ e_out' = "none" /\ e_result' = <<>>

\* lines 74-82: the model is loaded, runs and finds entities
ExtractByModel ==
    /\ ExtractFrame
    /\ op = "extract" /\ e_out = "none"
    /\ nlp = "loaded"
    /\ \E sl \in SpanLists(e_text) :
          /\ sl # <<>>
          /\ e_ents' = EntTexts(e_text, sl)
          /\ \E order \in SetOrders(Lowered(EntTexts(e_text, sl))) :
                e_result' = Join(order, CommaSpace)
    /\ e_model' = "entities"
    /\ e_path' = "model"
    /\ e_out' = "returned"
    /\ UNCHANGED <<op, e_text>>

\* lines 74-99: the model is missing, raises or finds nothing
ExtractByFallback ==
    /\ ExtractFrame
    /\ op = "extract" /\ e_out = "none"
    /\ e_model' \in IF nlp = "none" THEN {"unavailable"} ELSE {"raised", "empty"}
    /\ e_ents' = <<>>
    /\ e_path' = Fallback(e_text).path
    /\ e_result' = Fallback(e_text).result
    /\ e_out' = "returned"
    /\ UNCHANGED <<op, e_text>>

ExtractDone ==
    /\ ExtractFrame
    /\ op = "extract" /\ e_out # "none"
    /\ op' = "idle"
    /\ e_text' = <<>> /\ e_model' = "none" /\ e_ents' = <<>> /\ e_path' = "none"
    /\ e_out' = "none" /\ e_result' = <<>>

NextExtract == CallExtract \/ ExtractByModel \/ ExtractByFallback \/ ExtractDone

(***************************************************************************)
(* recommended_jobs (src/main.py 120-137)                                  *)
(***************************************************************************)
\* the skill texts of users and listings
SkillTexts ==
    { <<>>,
      <<"g">>,
      <<"g", "o">>,
      <<"o", "g">>,
      <<"g", "o", ",", " ", "o", "g">> }

\* a frame row: its index label, its Skills text and its "Similarity Score"
\* (NONE while the frame has no such column)
Row(idx, text, score) == [idx |-> idx, Skills |-> text, score |-> score]

\* corpora: frames of up to MaxRows listings with the index labels 1..n
Corpora ==
    UNION {{[k \in 1..n |-> Row(k, texts[k], NONE)] : texts \in [1..n -> SkillTexts]} :
              n \in 0..MaxRows}

\* TfidfVectorizer's analyzer: the lowered runs of two or more word characters
RECURSIVE Terms(_, _)
Terms(s, run) ==
    IF s = <<>> THEN (IF Len(run) >= 2 THEN <<run>> ELSE <<>>)
    ELSE IF IsLetter(Head(s)) THEN Terms(Tail(s), Append(run, LowerChar(Head(s))))
    ELSE (IF Len(run) >= 2 THEN <<run>> ELSE <<>>) \o Terms(Tail(s), <<>>)

TermSet(s) == {Terms(s, <<>>)[k] : k \in 1..Len(Terms(s, <<>>))}
TermCount(s, t) == Cardinality({k \in 1..Len(Terms(s, <<>>)) : Terms(s, <<>>)[k] = t})
SameTerms(a, b) == \A t \in TermSet(a) \cup TermSet(b) : TermCount(a, t) = TermCount(b, t)

\* lines 131-134 raise ValueError: fit_transform on documents without any
\* term ("empty vocabulary"), cosine_similarity on zero listing vectors
VectorizerRaises(user, rows) ==
    \/ rows = <<>>
    \/ TermSet(user) = {} /\ \A k \in 1..Len(rows) : TermSet(rows[k].Skills) = {}

\* What cosine_similarity(skill_vectors[0:1], skill_vectors[1:])[0] can be:
\* one level per listing, 0 exactly when the listing shares no term with the
\* user, the top level when both have the same terms, and equal for
\* listings with the same terms. (TF-IDF weights are positive reals; the
\* levels stand for their order.)
Similarities(user, rows) ==
    {sim \in [1..Len(rows) -> 0..MaxScore] :
        /\ \A k \in 1..Len(rows) :
              /\ sim[k] = 0 <=> TermSet(user) \cap TermSet(rows[k].Skills) = {}
              /\ (TermSet(user) # {} /\ SameTerms(user, rows[k].Skills)) => sim[k] = MaxScore
        /\ \A k, m \in 1..Len(rows) :
              SameTerms(rows[k].Skills, rows[m].Skills) => sim[k] = sim[m]}

\* line 135: the column is assigned by position
AttachScoresShifted(rows, sim) ==
    [k \in 1..Len(rows) |-> [rows[k] EXCEPT !.score = sim[(k % Len(rows)) + 1]]]
AttachScores(rows, sim) ==
    [k \in 1..Len(rows) |-> [rows[k] EXCEPT !.score = sim[k]]]

\* line 136: sort_values(by="Similarity Score", ascending=False) is called
\* with the default kind="quicksort", a sort that does not keep rows with
\* equal keys in their order (numpy's introsort swaps equal keys as soon as
\* the frame has more than 17 rows): the outcomes are the arrangements of
\* the rows in non-increasing order of score
SortValues(rows) ==
    {[k \in 1..Len(rows) |-> rows[p[k]]] :
        p \in {q \in [1..Len(rows) -> 1..Len(rows)] :
                  /\ \A i, j \in 1..Len(rows) : i # j => q[i] # q[j]
                  /\ \A i, j \in 1..Len(rows) :
                        i < j => rows[q[i]].score >= rows[q[j]].score}}

RankIdle ==
    /\ r_user = <<>> /\ r_listings = <<>> /\ r_sim = <<>>
    /\ r_out = "none" /\ r_result = <<>>

\* a call recommended_jobs(user_skills, job_listings)
CallRank ==
    /\ RankFrame
    /\ op = "idle"
    /\ op' = "rank"
    /\ r_user' \in SkillTexts
    /\ r_listings' \in Corpora
    /\ r_sim' = <<>> /\ r_out' = "none" /\ r_result' = <<>>

\* lines 131-137
RankJobs ==
    /\ RankFrame
    /\ op = "rank" /\ r_out = "none"
    /\ ~VectorizerRaises(r_user, r_listings)
    /\ \E sim \in Similarities(r_user, r_listings) :
          /\ r_sim' = sim
          /\ r_listings' = AttachScores(r_listings, sim)
          /\ r_result' \in SortValues(AttachScores(r_listings, sim))
    /\ r_out' = "returned"
    /\ UNCHANGED <<op, r_user>>

\* lines 131-134 raise
RankRaises ==
    /\ RankFrame
    /\ op = "rank" /\ r_out = "none"
    /\ VectorizerRaises(r_user, r_listings)
    /\ r_out' = "raised"
    /\ UNCHANGED <<op, r_user, r_listings, r_sim, r_result>>

RankDone ==
    /\ RankFrame
    /\ op = "rank" /\ r_out # "none"
    /\ op' = "idle"
    /\ r_user' = <<>> /\ r_listings' = <<>> /\ r_sim' = <<>>
    /\ r_out' = "none" /\ r_result' = <<>>

NextRank == CallRank \/ RankJobs \/ RankRaises \/ RankDone

(***************************************************************************)
(* recommended_skills (src/main.py 140-163)                                *)
(***************************************************************************)
\* line 161
DefaultNumber == 10

Python == <<"p", "y", "t", "h", "o", "n">>

\* the corpus of the example: "python, sql", "python, sql", "java"
ExampleListings ==
    << <<"p", "y", "t", "h", "o", "n", ",", " ", "s", "q", "l">>,
       <<"p", "y", "t", "h", "o", "n", ",", " ", "s", "q", "l">>,
       <<"j", "a", "v", "a">> >>

\* a Skills text with 11 different tokens, the k-th of them (in the order
\* a, b, ..., k) occurring (k + 1) \div 2 times
LongTokens ==
    << "a", "b", "c", "c", "d", "d", "e", "e", "e", "f", "f", "f",
       "g", "g", "g", "g", "h", "h", "h", "h",
       "i", "i", "i", "i", "i", "j", "j", "j", "j", "j",
       "k", "k", "k", "k", "k", "k" >>
LongSkills == Join([k \in 1..Len(LongTokens) |-> <<LongTokens[k]>>], CommaSpace)

\* the inputs: user skills, the Skills column, and skill_number: None, an
\* integer, or a value that is no integer (the '' the endpoint lets through)
SkillUsers == SkillTexts \cup {Python}
SkillListings ==
    SeqsUpTo(SkillTexts, MaxRows) \cup {ExampleListings, <<LongSkills>>}
Number(kind, n) == [kind |-> kind, n |-> n]
SkillNumbers ==
    {Number("none", 0), Number("other", 0)}
    \cup {Number("int", n) : n \in (0 - 1)..MaxNumber}

\* lines 153-154: the tokens of all rows, in row order
all_job_skills(rows) == Flatten([k \in 1..Len(rows) |-> Split(rows[k], CommaSpace)])

\* line 155: Counter(all_job_skills)
skill_counts(toks) ==
    [t \in {toks[k] : k \in 1..Len(toks)} |-> Cardinality({k \in 1..Len(toks) : toks[k] = t})]

\* lines 152, 156
missing_skills_all(user, counts) ==
    DOMAIN counts
missing_skills(user, counts) ==
    LET user_skills == Split(user, CommaSpace)
    IN DOMAIN counts \ {user_skills[k] : k \in 1..Len(user_skills)}

\* line 157: sorted(missing_skills, key=count, reverse=True): a stable sort
\* of the set in its iteration order, which is any order; so every listing
\* of the set in non-increasing order of count can come out
RECURSIVE SortedByCountAscending(_, _)
SortedByCountAscending(missing, counts) ==
    IF missing = {} THEN {<<>>}
    ELSE UNION {{<<t>> \o rest : rest \in SortedByCountAscending(missing \ {t}, counts)} :
                  t \in {x \in missing : \A y \in missing : counts[x] <= counts[y]}}
RECURSIVE SortedByCount(_, _)
SortedByCount(missing, counts) ==
    IF missing = {} THEN {<<>>}
    ELSE UNION {{<<t>> \o rest : rest \in SortedByCount(missing \ {t}, counts)} :
                  t \in {x \in missing : \A y \in missing : counts[x] >= counts[y]}}

\* s[:n] of Python for an integer n
SliceTo(s, n) ==
    IF n >= 0 THEN Take(s, n)
    ELSE IF Len(s) + n > 0 THEN Take(s, Len(s) + n) ELSE <<>>

\* lines 160-163; a skill_number that is neither None nor an integer makes
\* the slice raise TypeError
TruncateRaises(number) == number.kind = "other"
Truncate(sorted, number) ==
    IF number.kind = "none" THEN SliceTo(sorted, DefaultNumber)
    ELSE SliceTo(sorted, number.n)

\* lines 152-163: what recommended_skills can return
RecommendedSkills(user, rows, number) ==
    LET counts == skill_counts(all_job_skills(rows))
    IN {Truncate(sorted, number) : sorted \in SortedByCount(missing_skills(user, counts), counts)}

\* line 153: job_listings['Skills_list'] = ... adds the column to the frame
\* the caller passed
AssignSkillsListNowhere(columns) == columns
AssignSkillsList(columns) == columns \cup {"Skills_list"}

SkillsIdle ==
    /\ s_user = <<>> /\ s_listings = <<>> /\ s_number = Number("none", 0)
    /\ s_out = "none" /\ s_result = <<>>
    /\ s_columns = {} /\ s_rerun = "none" /\ s_second = <<>>

\* a call recommended_skills(user_skills, job_listings, skill_number)
CallSkills ==
    /\ SkillsFrame
    /\ op = "idle"
    /\ op' = "skills"
    /\ s_user' \in SkillUsers
    /\ s_listings' \in SkillListings
    /\ s_number' \in SkillNumbers
    /\ s_out' = "none" /\ s_result' = <<>>
    /\ s_columns' = {"Skills"} /\ s_rerun' = "none" /\ s_second' = <<>>

\* lines 152-163
RecommendSkills ==
    /\ SkillsFrame
    /\ op = "skills" /\ s_out = "none"
    /\ ~TruncateRaises(s_number)
    /\ s_result' \in RecommendedSkills(s_user, s_listings, s_number)
    /\ s_out' = "returned"
    /\ s_columns' = AssignSkillsList(s_columns)
    /\ UNCHANGED <<op, s_user, s_listings, s_number, s_rerun, s_second>>

\* the same call once more, in the same interpreter or in another one.
\* Line 157 sorts a set of strings by count: tokens with equal counts keep
\* the set's iteration order, which follows the string hashes. Within one
\* interpreter the hashes are fixed, so the order is the one of the first
\* run; another interpreter has its own hash seed and any order of the
\* tied tokens can come out.
RecommendSkillsAgain ==
    /\ SkillsFrame
    /\ op = "skills" /\ s_out = "returned" /\ s_rerun = "none"
    /\ \E process \in {"same", "other"} :
          /\ s_rerun' = process
          /\ s_second' \in IF process = "same" THEN {s_result}
                            ELSE RecommendedSkills(s_user, s_listings, s_number)
    /\ UNCHANGED <<op, s_user, s_listings, s_number, s_out, s_result, s_columns>>

\* line 163 raises
SkillsRaises ==
    /\ SkillsFrame
    /\ op = "skills" /\ s_out = "none"
    /\ TruncateRaises(s_number)
    /\ s_out' = "raised"
    /\ s_columns' = AssignSkillsList(s_columns)
    /\ UNCHANGED <<op, s_user, s_listings, s_number, s_result, s_rerun, s_second>>

SkillsDone ==
    /\ SkillsFrame
    /\ op = "skills" /\ s_out # "none"
    /\ op' = "idle"
    /\ s_user' = <<>> /\ s_listings' = <<>> /\ s_number' = Number("none", 0)
    /\ s_out' = "none" /\ s_result' = <<>>
    /\ s_columns' = {} /\ s_rerun' = "none" /\ s_second' = <<>>

NextSkills ==
    CallSkills \/ RecommendSkills \/ RecommendSkillsAgain \/ SkillsRaises \/ SkillsDone

(***************************************************************************)
(* The endpoints of src/job_matcher/views.py that load the corpus         *)
(***************************************************************************)
\* line 135 of src/main.py: the column recommended_jobs adds to the frame
ScoreColumn == "Similarity Score"

\* a row of a frame read from the corpus file; the cells of the columns
\* id, title, company and location are stood for by the row's number
Listing(idx, description, text, score) ==
    [idx |-> idx, description |-> description, Skills |-> text, score |-> score]

BaseColumns == {"id", "title", "company", "location", "description"}

\* descriptions of the listings of a file without a Skills column
Descriptions == { <<"g", "o">>, <<"o">> }

\* the file at job_listings_path: missing, empty (no header line), or a
\* CSV with a header and up to MaxRows listings, with or without a
\* Skills column
MissingFile == [exists |-> FALSE, empty |-> FALSE, columns |-> {}, rows |-> <<>>]
EmptyFile == [exists |-> TRUE, empty |-> TRUE, columns |-> {}, rows |-> <<>>]
CsvFile(columns, rows) == [exists |-> TRUE, empty |-> FALSE, columns |-> columns, rows |-> rows]
Files ==
    {MissingFile, EmptyFile}
    \cup UNION {{CsvFile(BaseColumns \cup {"Skills"},
                         [k \in 1..n |-> Listing(k, <<"g", "o">>, texts[k], NONE)]) :
                    texts \in [1..n -> SkillTexts]} : n \in 0..MaxRows}
    \cup UNION {{CsvFile(BaseColumns,
                         [k \in 1..n |-> Listing(k, ds[k], <<>>, NONE)]) :
                    ds \in [1..n -> Descriptions]} : n \in 0..MaxRows}

\* the files given to recommend-skills: also one with the 11 tokens
SkillsFiles ==
    Files \cup {CsvFile(BaseColumns \cup {"Skills"},
                        <<Listing(1, <<"g", "o">>, LongSkills, NONE)>>)}

\* views.py 274-282: the sample written when the file is missing
SampleFile ==
    CsvFile(BaseColumns \cup {"Skills"},
            << Listing(1, <<"S", "o", "f", "t", "w", "a", "r", "e", " ", "e", "n", "g", "i", "n", "e", "e", "r", "i", "n", "g", " ", "r", "o", "l", "e">>,
                       <<"p", "y", "t", "h", "o", "n", ",", " ", "j", "a", "v", "a", "s", "c", "r", "i", "p", "t">>, NONE),
               Listing(2, <<"D", "a", "t", "a", " ", "s", "c", "i", "e", "n", "c", "e", " ", "p", "o", "s", "i", "t", "i", "o", "n">>,
                       <<"p", "y", "t", "h", "o", "n", ",", " ", "s", "q", "l", ",", " ", "m", "a", "c", "h", "i", "n", "e", " ", "l", "e", "a", "r", "n", "i", "n", "g">>, NONE),
               Listing(3, <<"W", "e", "b", " ", "d", "e", "v", "e", "l", "o", "p", "m", "e", "n", "t", " ", "j", "o", "b">>,
                       <<"h", "t", "m", "l", ",", " ", "c", "s", "s", ",", " ", "j", "a", "v", "a", "s", "c", "r", "i", "p", "t", ",", " ", "r", "e", "a", "c", "t">>, NONE) >>)

\* views.py 286: pd.read_csv of a file that has a header
ReadCsv(file) == [columns |-> file.columns, rows |-> file.rows]

NoFrame == [columns |-> {}, rows |-> <<>>]

\* what request.data can hold under 'skill_count': nothing or null, an
\* integer, or a string
Raw(kind, n, text) == [kind |-> kind, n |-> n, text |-> text]
NoCount == Raw("none", 0, <<>>)
RawCounts ==
    {NoCount}
    \cup {Raw("int", n, <<>>) : n \in (0 - 1)..MaxNumber}
    \cup {Raw("str", 0, t) : t \in {<<>>, <<"0">>, <<"1">>, <<"-", "1">>, <<" ", "2">>, <<"x">>}}

\* request.data of the two endpoints: with or without the key 'skills'
Request(hasSkills, text, count) ==
    [hasSkills |-> hasSkills, skills |-> text, skill_count |-> count]
Requests ==
    {Request(FALSE, <<>>, NoCount)}
    \cup {Request(TRUE, t, NoCount) : t \in SkillTexts}
SkillsRequests ==
    {Request(FALSE, <<>>, NoCount)}
    \cup {Request(TRUE, t, c) : t \in {<<>>, <<"g">>}, c \in RawCounts}

\* src/main.py 131-137 on a frame with named columns: job_listings["Skills"]
\* raises KeyError without that column; otherwise the outcomes are the
\* frames with the score column added, sorted
RankedFrames(user, frame) ==
    IF "Skills" \notin frame.columns \/ VectorizerRaises(user, frame.rows)
    THEN {}
    ELSE {[columns |-> frame.columns \cup {ScoreColumn}, rows |-> sorted] :
             sorted \in UNION {SortValues(AttachScores(frame.rows, sim)) :
                                  sim \in Similarities(user, frame.rows)}}

\* the cell of a row under a column name
CellOf(row, column) ==
    IF column = "Skills" THEN row.Skills
    ELSE IF column = ScoreColumn THEN row.score
    ELSE IF column = "description" THEN row.description
    ELSE row.idx

\* views.py 294: recommended.to_dict('records'): one mapping per row, keyed
\* by the column names of the frame
ToDictRecords(frame) ==
    [k \in 1..Len(frame.rows) |-> [c \in frame.columns |-> CellOf(frame.rows[k], c)]]

\* serializers.py 4-13: the fields of JobSerializer
RequiredFields ==
    {"id", "title", "company", "location", "description", "Skills", "Similarity_Score"}
OptionalFields == {"employment_type", "job_apply_link", "employer_logo"}

\* views.py 297-298: serializer.data reads every field from each mapping by
\* the field's name; a required field that is not a key raises KeyError,
\* an optional one comes out as null
SerializerRaises(records) ==
    \E k \in 1..Len(records) : \E f \in RequiredFields : f \notin DOMAIN records[k]
SerializerData(records) ==
    [k \in 1..Len(records) |->
        [f \in RequiredFields \cup OptionalFields |->
            IF f \in DOMAIN records[k] THEN records[k][f] ELSE NONE]]

\* the shape of what a handler leaves behind
Outcome(status, error, data, file, corpus, ranked) ==
    [status |-> status, error |-> error, data |-> data, file |-> file,
     corpus |-> corpus, ranked |-> ranked]

\* views.py 249-311: RecommendedJobsView.post
JobsViewOutcomes(req, file) ==
    IF ~req.hasSkills
    THEN {Outcome(400, "No skills provided", <<>>, file, NoFrame, NoFrame)}
    ELSE LET onDisk == IF file.exists THEN file ELSE SampleFile
         IN IF onDisk.empty
            THEN {Outcome(500, "Job listings file is empty", <<>>, onDisk, NoFrame, NoFrame)}
            ELSE LET frame == ReadCsv(onDisk)
                 IN IF RankedFrames(req.skills, frame) = {}
                    THEN {Outcome(500, "Error processing jobs", <<>>, onDisk, frame, NoFrame)}
                    ELSE {IF SerializerRaises(ToDictRecords(ranked))
                          THEN Outcome(500, "Error processing jobs", <<>>, onDisk, frame, ranked)
                          ELSE Outcome(200, NONE, SerializerData(ToDictRecords(ranked)),
                                       onDisk, frame, ranked) :
                             ranked \in RankedFrames(req.skills, frame)}

\* int(text) of Python for the texts of RawCounts: blanks around an
\* optionally signed run of digits
Digits == <<"0", "1", "2", "3", "4", "5", "6", "7", "8", "9">>
IsDigit(c) == \E d \in 1..Len(Digits) : Digits[d] = c
DigitValue(c) == (CHOOSE d \in 1..Len(Digits) : Digits[d] = c) - 1
RECURSIVE DigitsValue(_)
DigitsValue(ds) ==
    IF ds = <<>> THEN 0
    ELSE DigitsValue(SubSeq(ds, 1, Len(ds) - 1)) * Len(Digits) + DigitValue(ds[Len(ds)])
Unsigned(text) ==
    IF Strip(text) # <<>> /\ Head(Strip(text)) \in {"-", "+"} THEN Tail(Strip(text))
    ELSE Strip(text)
IsIntText(text) ==
    Unsigned(text) # <<>> /\ \A k \in 1..Len(Unsigned(text)) : IsDigit(Unsigned(text)[k])
IntOf(text) ==
    IF Head(Strip(text)) = "-" THEN 0 - DigitsValue(Unsigned(text))
    ELSE DigitsValue(Unsigned(text))

\* views.py 339: `skill_count and not isinstance(skill_count, int)`
IsTruthy(raw) ==
    \/ raw.kind = "int" /\ raw.n # 0
    \/ raw.kind = "str" /\ raw.text # <<>>

\* views.py 337-344: the skill_number handed to recommended_skills
CoerceCount(raw) ==
    IF raw.kind = "none" THEN Number("none", 0)
    ELSE IF raw.kind = "int" THEN Number("int", raw.n)
    ELSE IF ~IsTruthy(raw) THEN Number("other", 0)
    ELSE IF IsIntText(raw.text) THEN Number("int", IntOf(raw.text))
    ELSE Number("none", 0)

\* the Skills column of a frame
SkillsColumn(frame) == [k \in 1..Len(frame.rows) |-> frame.rows[k].Skills]

\* views.py 320-387: RecommendedSkillsView.post
SkillsViewOutcomes(req, file) ==
    IF ~req.hasSkills
    THEN {Outcome(400, "No skills provided", <<>>, file, NoFrame, NoFrame)}
    ELSE LET onDisk == IF file.exists THEN file ELSE SampleFile
         IN IF onDisk.empty
            THEN {Outcome(500, "Job listings file is empty", <<>>, onDisk, NoFrame, NoFrame)}
            ELSE LET frame == ReadCsv(onDisk)
                 IN IF \/ "Skills" \notin frame.columns
                       \/ TruncateRaises(CoerceCount(req.skill_count))
                    THEN {Outcome(500, "Error processing skills", <<>>, onDisk, frame, NoFrame)}
                    ELSE {Outcome(200, NONE, recommended, onDisk, frame, NoFrame) :
                             recommended \in RecommendedSkills(req.skills, SkillsColumn(frame),
                                                               CoerceCount(req.skill_count))}

(***************************************************************************)
(* load_job_listings (src/main.py 395-417)                                 *)
(***************************************************************************)
\* what extract_skills(text) can return (lines 74-99): the joined entity
\* texts in any order of the set when the model is loaded and finds some,
\* or else the outcome of the vocabulary scan
ExtractResults(text) ==
    {Fallback(text).result}
    \cup (IF nlp = "loaded"
          THEN UNION {{Join(order, CommaSpace) :
                          order \in SetOrders(Lowered(EntTexts(text, sl)))} :
                        sl \in SpanLists(text) \ {<<>>}}
          ELSE {})

\* line 417: the frame returned when loading fails
EmptyListings == [columns |-> BaseColumns \cup {"Skills"}, rows |-> <<>>]

\* lines 410-411: the Skills column is filled row by row from description
Backfills(frame) ==
    {[columns |-> frame.columns \cup {"Skills"},
      rows |-> [k \in 1..Len(frame.rows) |-> [frame.rows[k] EXCEPT !.Skills = texts[k]]]] :
        texts \in {ts \in [1..Len(frame.rows) -> UNION {ExtractResults(d) : d \in Descriptions}] :
                     \A k \in 1..Len(frame.rows) :
                        ts[k] \in ExtractResults(frame.rows[k].description)}}

\* lines 405-417
LoadedListings(file) ==
    IF ~file.exists \/ file.empty THEN {EmptyListings}
    ELSE IF "Skills" \in ReadCsv(file).columns THEN {ReadCsv(file)}
    ELSE Backfills(ReadCsv(file))

LoadIdle == l_file = MissingFile /\ l_out = "none" /\ l_listings = NoFrame

\* a call load_job_listings(file_path)
CallLoad ==
    /\ LoadFrame
    /\ op = "idle"
    /\ op' = "load"
    /\ l_file' \in Files
    /\ UNCHANGED <<l_out, l_listings>>

LoadJobListings ==
    /\ LoadFrame
    /\ op = "load" /\ l_out = "none"
    /\ l_listings' \in LoadedListings(l_file)
    /\ l_out' = "returned"
    /\ UNCHANGED <<op, l_file>>

LoadDone ==
    /\ LoadFrame
    /\ op = "load" /\ l_out # "none"
    /\ op' = "idle"
    /\ l_file' = MissingFile /\ l_out' = "none" /\ l_listings' = NoFrame

NextLoad == CallLoad \/ LoadJobListings \/ LoadDone

ViewIdle ==
    /\ v_view = "none" /\ v_request = Request(FALSE, <<>>, NoCount)
    /\ v_file = MissingFile /\ v_corpus = NoFrame /\ v_ranked = NoFrame
    /\ v_status = 0 /\ v_body = [error |-> NONE, data |-> <<>>]

\* a POST to recommend-jobs arrives
CallJobsView ==
    /\ ViewFrame
    /\ op = "idle"
    /\ op' = "view"
    /\ v_view' = "jobs"
    /\ v_request' \in Requests
    /\ v_file' \in Files
    /\ UNCHANGED <<v_corpus, v_ranked, v_status, v_body>>

PostRecommendedJobs ==
    /\ ViewFrame
    /\ op = "view" /\ v_view = "jobs" /\ v_status = 0
    /\ \E out \in JobsViewOutcomes(v_request, v_file) :
          /\ v_status' = out.status
          /\ v_body' = [error |-> out.error, data |-> out.data]
          /\ v_file' = out.file
          /\ v_corpus' = out.corpus
          /\ v_ranked' = out.ranked
    /\ UNCHANGED <<op, v_view, v_request>>

\* a POST to recommend-skills arrives
CallSkillsView ==
    /\ ViewFrame
    /\ op = "idle"
    /\ op' = "view"
    /\ v_view' = "skills"
    /\ v_request' \in SkillsRequests
    /\ v_file' \in SkillsFiles
    /\ UNCHANGED <<v_corpus, v_ranked, v_status, v_body>>

PostRecommendedSkills ==
    /\ ViewFrame
    /\ op = "view" /\ v_view = "skills" /\ v_status = 0
    /\ \E out \in SkillsViewOutcomes(v_request, v_file) :
          /\ v_status' = out.status
          /\ v_body' = [error |-> out.error, data |-> out.data]
          /\ v_file' = out.file
          /\ v_corpus' = out.corpus
          /\ v_ranked' = out.ranked
    /\ UNCHANGED <<op, v_view, v_request>>

ViewDone ==
    /\ ViewFrame
    /\ op = "view" /\ v_status # 0
    /\ op' = "idle"
    /\ v_view' = "none" /\ v_request' = Request(FALSE, <<>>, NoCount)
    /\ v_file' = MissingFile /\ v_corpus' = NoFrame /\ v_ranked' = NoFrame
    /\ v_status' = 0 /\ v_body' = [error |-> NONE, data |-> <<>>]

NextView ==
    \/ CallJobsView \/ PostRecommendedJobs
    \/ CallSkillsView \/ PostRecommendedSkills
    \/ ViewDone

(***************************************************************************)
(* get_job_links (src/main.py 304-328) and JobLinksView.post               *)
(* (src/job_matcher/views.py 471-514)                                      *)
(***************************************************************************)
\* line 323: li[:2]
KeptProviders == 2

\* an element of a provider list: a {jobProvider, url} pair, a 3-element
\* item, or a mapping with other keys
Item(shape, provider, url) == [shape |-> shape, jobProvider |-> provider, url |-> url]
LinkedIn == Item("pair", "LinkedIn", "https://linkedin/1")
Indeed == Item("pair", "Indeed", "https://indeed/1")
Pairs == {LinkedIn, Indeed}
Triple == Item("triple", "LinkedIn", "https://linkedin/1")
OtherKeys == Item("other", "Monster", "https://monster/1")
ProviderLists ==
    SeqsUpTo(Pairs, MaxProviders)
    \cup {<<Triple>>, <<LinkedIn, Indeed, Triple>>, <<OtherKeys>>}

\* a cell of the column 'jobProviders': "nan" is an empty cell, "invalid" a
\* text that is no Python literal, "number" the text of a number, "list" the
\* text of a list with the given items
Cell(kind, items) == [kind |-> kind, items |-> items]
\* what a row holds when the frame has no such column
NoCell == Cell("absent", <<>>)
ProviderCells ==
    {Cell("nan", <<>>), Cell("invalid", <<>>), Cell("number", <<>>)}
    \cup {Cell("list", li) : li \in ProviderLists}

\* the frames of n jobs given to get_job_links: with the column
\* 'jobProviders', or with the column 'id' alone
JobIds == <<"j1", "j2", "j3", "j4">>
LinkFrames(n) ==
    {[columns |-> {"id", "jobProviders"},
      rows |-> [k \in 1..n |-> [id |-> JobIds[k], jobProviders |-> cells[k]]]] :
        cells \in [1..n -> ProviderCells]}
    \cup {[columns |-> {"id"},
           rows |-> [k \in 1..n |-> [id |-> JobIds[k], jobProviders |-> NoCell]]]}

\* line 322: ast.literal_eval raises ValueError on a cell that is no string
\* and on a text that is no literal, SyntaxError on a text that does not parse
LiteralEvalRaises(cell) == cell.kind \in {"nan", "invalid"}
\* line 323: li[:2] raises TypeError when li is a number
SliceRaises(cell) == cell.kind = "number"
\* line 323: the slice of a list
KeepAll(li) == li
KeepFirst(li) == Take(li, KeptProviders)
\* line 323: pd.DataFrame(data=..., columns=['jobProvider', 'url']) raises
\* ValueError when an item has 3 elements
FrameRaises(li) == \E k \in 1..Len(li) : li[k].shape = "triple"
\* line 323: the rows of that frame; a mapping without the two keys gives a
\* row of missing values
LinkRow(item) ==
    IF item.shape = "pair"
    THEN [jobProvider |-> item.jobProvider, url |-> item.url]
    ELSE [jobProvider |-> NONE, url |-> NONE]
LinkRows(li) == [k \in 1..Len(li) |-> LinkRow(li[k])]

\* lines 321-326 for one job: "raised" when the exception is not one of
\* (ValueError, SyntaxError), else the rows it adds (none when it is skipped)
JobLinks(cell) ==
    IF LiteralEvalRaises(cell) THEN [raised |-> FALSE, rows |-> <<>>]
    ELSE IF SliceRaises(cell) THEN [raised |-> TRUE, rows |-> <<>>]
    ELSE IF FrameRaises(KeepFirst(cell.items)) THEN [raised |-> FALSE, rows |-> <<>>]
    ELSE [raised |-> FALSE, rows |-> LinkRows(KeepFirst(cell.items))]

\* lines 320-326: the loop over the column, pd.concat(..., ignore_index=True)
RECURSIVE ConcatLinks(_)
ConcatLinks(rows) ==
    IF rows = <<>> THEN [raised |-> FALSE, rows |-> <<>>]
    ELSE LET first == JobLinks(Head(rows).jobProviders)
             rest == ConcatLinks(Tail(rows))
         IN IF first.raised \/ rest.raised THEN [raised |-> TRUE, rows |-> <<>>]
            ELSE [raised |-> FALSE, rows |-> first.rows \o rest.rows]

\* lines 314-328
GetJobLinks(frame) ==
    IF "jobProviders" \notin frame.columns
    THEN [raised |-> FALSE, rows |-> <<>>]
    ELSE ConcatLinks(frame.rows)

\* request.data of the endpoint: without the key 'jobs', with a value that
\* is no list, or with a list of job identifiers
LinkRequest(hasJobs, isList, ids) == [hasJobs |-> hasJobs, isList |-> isList, ids |-> ids]
LinkRequests ==
    {LinkRequest(FALSE, FALSE, <<>>), LinkRequest(TRUE, FALSE, <<>>)}
    \cup {LinkRequest(TRUE, TRUE, ids) :
            ids \in SeqsUpTo({JobIds[k] : k \in 1..MaxLinkJobs}, MaxLinkJobs)}

\* views.py 495: pd.DataFrame({'id': job_ids})
IdFrameWithProviders(ids) ==
    [columns |-> {"id", "jobProviders"},
     rows |-> [k \in 1..Len(ids) |->
                 [id |-> ids[k], jobProviders |-> Cell("list", <<LinkedIn>>)]]]
IdFrame(ids) ==
    [columns |-> {"id"},
     rows |-> [k \in 1..Len(ids) |-> [id |-> ids[k], jobProviders |-> NoCell]]]

\* views.py 502-505: to_dict('records') and JobLinkSerializer(many=True)
LinkSerializerData(rows) ==
    [k \in 1..Len(rows) |-> [jobProvider |-> rows[k].jobProvider, url |-> rows[k].url]]

LinkOutcome(status, error, data, jobs, out, links) ==
    [status |-> status, error |-> error, data |-> data, jobs |-> jobs,
     out |-> out, links |-> links]

\* views.py 481-514: JobLinksView.post
LinksViewOutcome(req) ==
    IF ~req.hasJobs
    THEN LinkOutcome(400, "No jobs provided", <<>>, NoFrame, "none", <<>>)
    ELSE IF ~req.isList
    THEN LinkOutcome(400, "Jobs must be a list of IDs", <<>>, NoFrame, "none", <<>>)
    ELSE LET frame == IdFrame(req.ids)
             res == GetJobLinks(frame)
         IN IF res.raised
            THEN LinkOutcome(500, "Error fetching job links", <<>>, frame, "raised", <<>>)
            ELSE LinkOutcome(200, NONE, LinkSerializerData(res.rows), frame,
                             "returned", res.rows)

LinksIdle ==
    /\ k_view = FALSE /\ k_request = LinkRequest(FALSE, FALSE, <<>>)
    /\ k_jobs = NoFrame /\ k_out = "none" /\ k_links = <<>>
    /\ k_status = 0 /\ k_body = [error |-> NONE, data |-> <<>>]

\* a call get_job_links(recommended_jobs)
CallLinks ==
    /\ LinksFrame
    /\ op = "idle"
    /\ op' = "links"
    /\ \E n \in 0..MaxLinkJobs : k_jobs' \in LinkFrames(n)
    /\ UNCHANGED <<k_view, k_request, k_out, k_links, k_status, k_body>>

\* lines 314-328: the call returns
ReturnJobLinks ==
    /\ LinksFrame
    /\ op = "links" /\ ~k_view /\ k_out = "none"
    /\ ~GetJobLinks(k_jobs).raised
    /\ k_links' = GetJobLinks(k_jobs).rows
    /\ k_out' = "returned"
    /\ UNCHANGED <<op, k_view, k_request, k_jobs, k_status, k_body>>

\* line 323 raises an exception that line 325 does not catch
LinksRaises ==
    /\ LinksFrame
    /\ op = "links" /\ ~k_view /\ k_out = "none"
    /\ GetJobLinks(k_jobs).raised
    /\ k_out' = "raised"
    /\ UNCHANGED <<op, k_view, k_request, k_jobs, k_links, k_status, k_body>>

\* a request POST job-links
CallLinksView ==
    /\ LinksFrame
    /\ op = "idle"
    /\ op' = "links"
    /\ k_view' = TRUE
    /\ k_request' \in LinkRequests
    /\ UNCHANGED <<k_jobs, k_out, k_links, k_status, k_body>>

\* views.py 481-514
PostJobLinks ==
    /\ LinksFrame
    /\ op = "links" /\ k_view /\ k_status = 0
    /\ LET o == LinksViewOutcome(k_request)
       IN /\ k_status' = o.status
          /\ k_body' = [error |-> o.error, data |-> o.data]
          /\ k_jobs' = o.jobs
          /\ k_out' = o.out
          /\ k_links' = o.links
    /\ UNCHANGED <<op, k_view, k_request>>

LinksDone ==
    /\ LinksFrame
    /\ op = "links" /\ (k_out # "none" \/ k_status # 0)
    /\ op' = "idle"
    /\ k_view' = FALSE /\ k_request' = LinkRequest(FALSE, FALSE, <<>>)
    /\ k_jobs' = NoFrame /\ k_out' = "none" /\ k_links' = <<>>
    /\ k_status' = 0 /\ k_body' = [error |-> NONE, data |-> <<>>]

NextLinks ==
    CallLinks \/ ReturnJobLinks \/ LinksRaises \/ CallLinksView \/ PostJobLinks \/ LinksDone

(***************************************************************************)
(* Specifications                                                          *)
(***************************************************************************)
Init ==
    /\ op = "idle"
    /\ nlp \in {"loaded", "none"}       \* lines 21-25
    /\ default_params = ABSENT
    /\ FetchIdle
    /\ CertIdle
    /\ ExtractIdle
    /\ RankIdle
    /\ SkillsIdle
    /\ ViewIdle
    /\ LoadIdle
    /\ LinksIdle

Next == NextFetch \/ NextCert \/ NextExtract \/ NextRank \/ NextSkills \/ NextView
            \/ NextLoad \/ NextLinks

Spec == Init /\ [][Next]_vars
SpecFetch == Init /\ [][NextFetch]_vars
SpecCert == Init /\ [][NextCert]_vars
SpecExtract == Init /\ [][NextExtract]_vars
SpecRank == Init /\ [][NextRank]_vars
SpecSkills == Init /\ [][NextSkills]_vars
SpecView == Init /\ [][NextView]_vars
SpecLoading == Init /\ [][NextLoad \/ NextView]_vars
SpecRecommender == Init /\ [][NextSkills \/ NextView]_vars
SpecLinks == Init /\ [][NextLinks]_vars
SpecCore == Init /\ [][NextRank \/ NextSkills]_vars

(***************************************************************************)
(* Claims about fetch_paginated_jobs.                                      *)
(***************************************************************************)
\* the jobs of the first n responses, in page order
PagesJobs(n) == Flatten([k \in 1..n |-> JobsOf(responses[k])])

\* the response kinds of a well-behaved API: a failure or a JSON object
\* (a page with jobs, an empty page, a page without cursor)
ExpectedKinds == \A k \in 1..Len(responses) : responses[k].kind \in {"error", "object"}

\* C1: for every max_pages >= 0 and every sequence of failures and object
\* responses, at most max_pages requests are issued (one per iteration), the
\* loop cannot run on once the budget is used up, and the call ends by
\* returning its accumulator; an exhausted budget is a normal return.
C1_PageBudget ==
    op = "fetch" =>
        /\ Len(requests) <= max_pages
        /\ Len(requests) = page_num
        /\ Len(responses) = page_num
        /\ (f_out = "none" /\ page_num = max_pages => ~ENABLED FetchPage /\ ENABLED FetchExhausted)
        /\ (f_out # "none" /\ ExpectedKinds =>
                /\ f_out = "returned"
                /\ f_result = all_jobs
                /\ f_result = PagesJobs(Len(responses)))

\* the budget ran out while the API still offered a next page
C1_Witness ==
    /\ op = "fetch" /\ f_out = "returned"
    /\ max_pages >= 2 /\ Len(requests) = max_pages
    /\ HasJobs(responses[max_pages]) /\ Truthy(responses[max_pages].nextPage)
    /\ Len(f_result) = max_pages

\* C2: a failed request (transport error, timeout, non-2xx) is the last
\* request of the call: nothing is retried, no later page is asked for, and
\* the call returns the jobs of the pages before it, in page order.
C2_FailureTruncates ==
    \A k \in 1..Len(responses) :
        responses[k].kind = "error" =>
            /\ k = Len(responses) /\ k = Len(requests)
            /\ f_out = "returned"
            /\ f_result = PagesJobs(k - 1)

\* a failure on the second page with budget left
C2_Witness ==
    /\ op = "fetch" /\ Len(responses) = 2 /\ max_pages > 2
    /\ responses[2].kind = "error"
    /\ f_out = "returned" /\ f_result = JobsOf(responses[1]) /\ f_result # <<>>

\* C3: a successful response with an empty or absent job list ends the
\* call: nothing is appended, no further request is issued, the result is
\* the jobs of the earlier pages. With {jobs:[x], nextPage:t1} then
\* {jobs:[]} and max_pages >= 2 the result is [x] after exactly 2 requests.
C3_EmptyPageStops ==
    /\ \A k \in 1..Len(responses) :
          responses[k].kind = "object" /\ ~HasJobs(responses[k]) =>
              /\ k = Len(responses) /\ k = Len(requests)
              /\ f_out = "returned"
              /\ f_result = PagesJobs(k - 1)
    /\ \A x \in Jobs :
          ( /\ op = "fetch" /\ max_pages >= 2 /\ Len(responses) >= 2
            /\ responses[1] = [kind |-> "object", hasJobs |-> TRUE,
                               jobs |-> <<x>>, nextPage |-> "t1"]
            /\ responses[2].kind = "object" /\ responses[2].hasJobs
            /\ responses[2].jobs = <<>> )
          => f_out = "returned" /\ f_result = <<x>> /\ Len(requests) = 2

C3_Witness ==
    /\ op = "fetch" /\ max_pages = 3 /\ Len(requests) = 2
    /\ responses[1] = [kind |-> "object", hasJobs |-> TRUE,
                       jobs |-> <<"j1">>, nextPage |-> "t1"]
    /\ responses[2] = [kind |-> "object", hasJobs |-> TRUE,
                       jobs |-> <<>>, nextPage |-> NONE]
    /\ f_out = "returned" /\ f_result = <<"j1">>

\* C4: a successful non-empty page without a next cursor (absent, null or
\* empty) is appended and is the last request, whatever budget remains.
C4_MissingCursorStops ==
    \A k \in 1..Len(responses) :
        ( /\ responses[k].kind = "object" /\ HasJobs(responses[k])
          /\ ~Truthy(responses[k].nextPage) ) =>
            /\ k = Len(responses) /\ k = Len(requests)
            /\ f_out = "returned"
            /\ f_result = PagesJobs(k)

C4_Witness ==
    /\ op = "fetch" /\ max_pages = 3 /\ Len(responses) = 2
    /\ HasJobs(responses[1]) /\ HasJobs(responses[2])
    /\ responses[2].nextPage = ""
    /\ f_out = "returned" /\ Len(f_result) = 2

\* C5: fetch_paginated_jobs never raises, whatever the page request yields
\* (a body that is not JSON, JSON of an unexpected shape such as a list).
C5_NeverRaises == f_out # "raised"

\* C17: within one call the cursor starts empty: the first request is sent
\* with the parameters as the caller passed them, nothing injected; every
\* later request carries exactly the cursor token of the response just
\* before it, never an older one and never none.
C17_CursorChain ==
    /\ [](\A k \in 2..Len(requests) :
            /\ Truthy(requests[k])
            /\ requests[k] = responses[k - 1].nextPage)
    /\ [][(op = "fetch" /\ page_num = 0 /\ page_num' = 1) =>
            (requests' = <<params>> /\ params' = params)]_vars

\* three requests, the third with the second token and not the first
C17_Witness ==
    /\ op = "fetch" /\ Len(requests) = 3
    /\ requests[1] = ABSENT
    /\ responses[1].nextPage = "t1" /\ responses[2].nextPage = "t2"
    /\ requests[2] = "t1" /\ requests[3] = "t2"

\* the responses of the call whose cursor the code read: an object with
\* jobs and a non-empty nextPage
CursorsReceived ==
    {k \in 1..Len(responses) :
        /\ responses[k].kind = "object" /\ HasJobs(responses[k])
        /\ Truthy(responses[k].nextPage)}
LastCursorReceived ==
    responses[CHOOSE k \in CursorsReceived : \A m \in CursorsReceived : m <= k].nextPage

\* the mapping has a token under nextPage
HoldsCursor(p) == p \in Tokens

\* C28 as stated: after a call that received at least one non-empty cursor,
\* params holds nextPage equal to the last such cursor.
C28_LastCursorHeld ==
    (op = "fetch" /\ f_out # "none" /\ CursorsReceived # {}) =>
        params = LastCursorReceived

\* C28: fetch_paginated_jobs writes a cursor into the caller's params
\* mapping when another request follows it, and never removes it: once a
\* request was sent, params holds what the last request carried, which from
\* the second request on is the cursor of the response before it; a mapping
\* shared with the module (DEFAULT_PARAMS) holds the same, keeps it after
\* the call, and a later call that reuses it sends it on its first request.
C28_StaleCursorKept ==
    /\ []((op = "fetch" /\ requests # <<>>) =>
            /\ params = requests[Len(requests)]
            /\ Len(requests) >= 2 =>
                  (HoldsCursor(params) /\ params = responses[Len(requests) - 1].nextPage)
            /\ uses_default => default_params = params)
    /\ [][/\ HoldsCursor(default_params) => default_params' # ABSENT
          /\ (op = "fetch" /\ op' = "fetch" /\ HoldsCursor(params)) => HoldsCursor(params')
          /\ (op = "idle" /\ op' = "fetch" /\ uses_default') => params' = default_params
          /\ (op = "fetch" /\ page_num = 0 /\ page_num' = 1) => requests' = <<params>>]_vars

\* a call that reuses DEFAULT_PARAMS sends a token on its first request
C28_Witness ==
    /\ op = "fetch" /\ uses_default
    /\ Len(requests) = 1 /\ HoldsCursor(requests[1])

(***************************************************************************)
(* Claims about get_certifications.                                        *)
(***************************************************************************)
MultiReturned == op = "cert" /\ c_out = "returned" /\ IsMulti(specialization)

\* the first position of courses that holds title t
FirstAt(t) == CHOOSE k \in 1..Len(courses) :
                 courses[k][1] = t /\ \A j \in 1..(k - 1) : courses[j][1] # t

\* C6: in the multi-skill path no two returned entries have the same title;
\* for each title of the concatenation the entry returned is its first
\* occurrence (with that occurrence's URL and skill tag), and the kept
\* entries are in the order they had in the concatenation.
C6_DedupFirstWins ==
    MultiReturned =>
        /\ \A i, j \in 1..Len(c_result) : i # j => c_result[i][1] # c_result[j][1]
        /\ \A k \in 1..Len(courses) : \E i \in 1..Len(c_result) : c_result[i][1] = courses[k][1]
        /\ \A i \in 1..Len(c_result) :
              /\ \E k \in 1..Len(courses) : courses[k][1] = c_result[i][1]
              /\ c_result[i] = courses[FirstAt(c_result[i][1])]
        /\ \A i, j \in 1..Len(c_result) :
              i < j => FirstAt(c_result[i][1]) < FirstAt(c_result[j][1])

\* two skills found the same title under different URLs; titles that differ
\* only in case or padding are both kept
C6_Witness ==
    /\ MultiReturned
    /\ \E i, j \in 1..Len(courses) :
          /\ i < j /\ origin[i] # origin[j]
          /\ courses[i][1] = courses[j][1] /\ courses[i][2] # courses[j][2]
          /\ \E r \in 1..Len(c_result) : c_result[r] = courses[i]
    /\ \E r, q \in 1..Len(c_result) : c_result[r][1] = "ML" /\ c_result[q][1] = "ml"
    /\ Len(c_result) < Len(courses)

\* C7: in the multi-skill path a failed catalog query makes its skill
\* contribute no entry and does not end the call: the call never raises,
\* the next skill can always be searched, at the return every skill of the
\* list was queried, and every title found (within the cap) by a query that
\* was answered is returned, from answered queries only.
C7_FailedQuerySkipped ==
    (op = "cert" /\ IsMulti(specialization)) =>
        /\ c_out # "raised"
        /\ \A q \in 1..Len(answered) :
              /\ answered[q] # "skipped"
              /\ answered[q] = "failed" =>
                    found[q] = <<>> /\ \A k \in 1..Len(origin) : origin[k] # q
        /\ (c_out = "none" /\ c_i < Len(skills)) => ENABLED CertSearch
        /\ c_out = "returned" =>
              /\ Len(answered) = Len(skills)
              /\ \A q \in 1..Len(found) : \A n \in 1..Min(Len(found[q]), limit_per_skill) :
                    \E r \in 1..Len(c_result) : c_result[r][1] = found[q][n][1]
              /\ \A r \in 1..Len(c_from) : answered[c_from[r]] = "page"

\* a failure between two answered queries: both neighbours' entries are returned
C7_Witness ==
    /\ MultiReturned
    /\ \E q \in 2..(Len(answered) - 1) :
          /\ answered[q] = "failed"
          /\ \E r \in 1..Len(c_from) : c_from[r] < q
          /\ \E r \in 1..Len(c_from) : c_from[r] > q

\* the entries of courses that query q contributed, in order
FromQuery(q) == [k \in 1..Cardinality({j \in 1..Len(origin) : origin[j] = q}) |->
                    courses[(CHOOSE j \in 1..Len(origin) :
                                origin[j] = q /\ Cardinality({i \in 1..j : origin[i] = q}) = k)]]

\* the returned entries that carry skill tag t
TaggedWith(t) == {r \in 1..Len(c_result) : c_result[r][3] = t}

\* each query contributes its first 3 results, in catalog order, to the
\* concatenation that is deduplicated afterwards
PerQueryCap ==
    \A q \in 1..Len(found) :
        FromQuery(q) = IF IsMulti(specialization)
                       THEN TagCourses(Take(found[q], limit_per_skill), skills[q])
                       ELSE Take(found[q], limit_per_skill)

\* C8: each catalog query contributes at most its first 3 results, in
\* catalog order, capped before the deduplication; the single-skill path
\* returns at most 3 entries; in the multi-skill path at most 3 returned
\* entries carry any one skill's tag, and the output has at most
\* 3 x (number of skills) <= 30 entries.
C8_CapThreePerSkill ==
    (op = "cert" /\ c_out = "returned") =>
        /\ PerQueryCap
        /\ ~IsMulti(specialization) => Len(c_result) <= limit_per_skill
        /\ IsMulti(specialization) =>
              /\ \A q \in 1..Len(skills) : Cardinality(TaggedWith(skills[q])) <= limit_per_skill
              /\ Len(c_result) <= limit_per_skill * Len(skills)
              /\ Len(skills) <= MaxSkills

\* what holds instead of the per-tag bound: at most 3 returned entries come
\* from any one query, so a skill listed n times has at most 3 x n entries
C8_CapThreePerQuery ==
    (op = "cert" /\ c_out = "returned") =>
        /\ PerQueryCap
        /\ \A q \in 1..Len(skills) :
              Cardinality({r \in 1..Len(c_from) : c_from[r] = q}) <= limit_per_skill
        /\ Len(c_result) <= limit_per_skill * Len(skills)
        /\ IsMulti(specialization) => Len(skills) <= MaxSkills

\* the comma-split text, each piece trimmed, empty pieces dropped, cut to
\* the first 10
NormalizedSkills(text) ==
    Take(SelectSeq([k \in 1..Len(SplitChar(text, ",")) |-> Strip(SplitChar(text, ",")[k])],
                   LAMBDA p : Len(p) > 0),
         MaxSkills)

\* the skills a catalog request was made for, in the order of the requests
RequestedSkills ==
    LET sent == SelectSeq([q \in 1..Len(queried) |-> q], LAMBDA q : answered[q] # "skipped")
    IN [k \in 1..Len(sent) |-> queried[sent[k]]]

\* C18: in the multi-skill path the skills queried are the comma-split
\* specialization, each piece trimmed, empty pieces dropped, cut to the
\* first 10; the catalog is queried exactly once per skill of the list, in
\* list order; and the endpoint's normalization followed by the one of
\* get_certifications gives the same skill list as one normalization.
C18_SkillListQueried ==
    (op = "cert" /\ c_out = "returned") =>
        /\ IsMulti(specialization) =>
              /\ skills = NormalizedSkills(specialization)
              /\ queried = skills
              /\ RequestedSkills = skills
        /\ (c_view /\ IsMulti(c_raw)) => RequestedSkills = NormalizedSkills(c_raw)

\* eleven skills sent through the endpoint: ten are queried
C18_Witness ==
    /\ op = "cert" /\ c_out = "returned"
    /\ c_view /\ c_raw = LongSpecialization
    /\ IsMulti(specialization) /\ specialization # c_raw
    /\ Len(queried) = MaxSkills /\ RequestedSkills = skills

\* C19: in the multi-skill path every returned entry carries as skill tag
\* the skill whose catalog query produced it, and the entries are grouped
\* in skill-processing order: the kept entries of an earlier skill precede
\* those of a later skill, each group in catalog order.
C19_TaggedAndGrouped ==
    MultiReturned =>
        /\ \A r \in 1..Len(c_result) :
              /\ Len(c_result[r]) = 3
              /\ c_result[r][3] = queried[c_from[r]]
              /\ \E n \in 1..Len(found[c_from[r]]) :
                    found[c_from[r]][n] = <<c_result[r][1], c_result[r][2]>>
        /\ \A r, t \in 1..Len(c_result) :
              r < t =>
                 /\ c_from[r] <= c_from[t]
                 /\ c_from[r] = c_from[t] =>
                       \E n, m \in 1..Len(found[c_from[r]]) :
                          /\ n < m
                          /\ found[c_from[r]][n] = <<c_result[r][1], c_result[r][2]>>
                          /\ found[c_from[r]][m] = <<c_result[t][1], c_result[t][2]>>

\* two different skills, two entries of the first kept before one of the
\* second, and an entry of the second dropped as a duplicate
C19_Witness ==
    /\ MultiReturned /\ Len(skills) = 2 /\ skills[1] # skills[2]
    /\ Len(c_result) >= 3 /\ Len(c_result) < Len(courses)
    /\ c_from[1] = 1 /\ c_from[2] = 1 /\ c_from[Len(c_from)] = 2
    /\ c_result[1][3] = skills[1] /\ c_result[Len(c_result)][3] = skills[2]

\* what each extraction strategy yields on a page: the entries extracted
\* from the anchors with the exact class, from those whose class holds the
\* card name, and from those whose href holds '/learn/'
ExactYield(anchors) ==
    ExtractCourses(SelectSeq(anchors, LAMBDA a : a.cls = "exact"))
HeuristicYield(anchors) ==
    ExtractCourses(SelectSeq(anchors, LAMBDA a : a.cls \in {"exact", "card"}))
HrefYield(anchors) ==
    ExtractCourses(SelectSeq(anchors, LAMBDA a : a.href # NONE /\ ContainsLearn(a.href)))

\* C20: search_coursera_for_skill tries the exact class match, then the
\* class-name heuristic, then the '/learn/' href fallback, and stops at the
\* first that yields results: a later strategy is used if and only if
\* every earlier one yielded no course entry, so the call returns no entry
\* only when all three yield none.
C20_FirstYieldingStrategy ==
    \A q \in 1..Len(found) :
        answered[q] = "page" =>
            /\ found[q] = IF ExactYield(replies[q]) # <<>> THEN ExactYield(replies[q])
                          ELSE IF HeuristicYield(replies[q]) # <<>>
                               THEN HeuristicYield(replies[q])
                               ELSE HrefYield(replies[q])
            /\ found[q] = <<>> =>
                  /\ ExactYield(replies[q]) = <<>>
                  /\ HeuristicYield(replies[q]) = <<>>
                  /\ HrefYield(replies[q]) = <<>>

(***************************************************************************)
(* Claims about extract_skills.                                            *)
(***************************************************************************)
\* the skill tokens a caller reads from the returned text
ReturnedTokens == Split(e_result, CommaSpace)

\* C9: for every text and every state of the model, extract_skills returns
\* a non-empty skill set whose tokens are lowercase, have no leading or
\* trailing whitespace, are not the empty string, and are pairwise distinct.
C9_CleanSkillSet ==
    (op = "extract" /\ e_out # "none") =>
        /\ e_out = "returned"
        /\ e_result # <<>>
        /\ \A i \in 1..Len(ReturnedTokens) :
              /\ ReturnedTokens[i] # <<>>
              /\ Lower(ReturnedTokens[i]) = ReturnedTokens[i]
              /\ Strip(ReturnedTokens[i]) = ReturnedTokens[i]
        /\ \A i, j \in 1..Len(ReturnedTokens) : i # j => ReturnedTokens[i] # ReturnedTokens[j]

\* token occurs in text when letter case is ignored
OccursIgnoringCase(token, text) ==
    \E i, j \in 1..Len(text) : i <= j /\ Lower(SubSeq(text, i, j)) = Lower(token)
VocabularyFound ==
    {COMMON_TECH_SKILLS[k] : k \in {n \in 1..Len(COMMON_TECH_SKILLS) :
                                      OccursIgnoringCase(COMMON_TECH_SKILLS[n], e_text)}}
ModelYields == nlp = "loaded" /\ e_model = "entities" /\ e_ents # <<>>

\* C21: extract_skills returns the result of the first strategy that yields
\* anything, in the order model, vocabulary scan, default: the model's
\* lowered entities when the loaded model finds entities; otherwise (model
\* unavailable, raised, or no entities) the vocabulary tokens that occur in
\* the text ignoring case, when there is one; and the default set python,
\* javascript, html, css, sql exactly when there is none.
C21_StrategyOrder ==
    (op = "extract" /\ e_out # "none") =>
        /\ e_out = "returned"
        /\ (e_model = "unavailable") <=> (nlp = "none")
        /\ e_model \in {"unavailable", "raised", "empty"} => e_ents = <<>>
        /\ (e_path = "model") <=> ModelYields
        /\ (e_path = "scan") <=> (~ModelYields /\ VocabularyFound # {})
        /\ (e_path = "default") <=> (~ModelYields /\ VocabularyFound = {})
        /\ e_path = "model" =>
              \E order \in SetOrders([k \in 1..Len(e_ents) |-> Lower(e_ents[k])]) :
                  e_result = Join(order, CommaSpace)
        /\ e_path = "scan" =>
              {ReturnedTokens[k] : k \in 1..Len(ReturnedTokens)} = VocabularyFound
        /\ e_path = "default" => e_result = Join(DefaultSkills, CommaSpace)
C21_Witness ==
    /\ op = "extract" /\ e_out = "returned"
    /\ e_path = "scan" /\ e_model = "raised"
    /\ e_text # Lower(e_text)

(***************************************************************************)
(* Claims about recommended_jobs.                                          *)
(***************************************************************************)
\* C10: what recommended_jobs returns is a permutation of the corpus rows
\* (none added, dropped or duplicated) in non-increasing order of score, and
\* the score of the listing at corpus position p is the similarity computed
\* for that listing's own skill vector (0 exactly when it shares no term
\* with the user).
C10_RankedPermutation ==
    (op = "rank" /\ r_out = "returned") =>
        /\ Len(r_result) = Len(r_listings)
        /\ \A p \in 1..Len(r_listings) :
              \E i \in 1..Len(r_result) :
                 /\ r_result[i].idx = p
                 /\ r_result[i].Skills = r_listings[p].Skills
                 /\ r_result[i].score = r_sim[p]
                 /\ \A j \in 1..Len(r_result) : r_result[j].idx = p => j = i
        /\ \A i, j \in 1..Len(r_result) : i < j => r_result[i].score >= r_result[j].score
        /\ \A i \in 1..Len(r_result) :
              r_result[i].score = 0 <=> TermSet(r_user) \cap TermSet(r_result[i].Skills) = {}

\* three listings with three different scores, returned in another order
C10_Witness ==
    /\ op = "rank" /\ r_out = "returned" /\ Len(r_result) = 3
    /\ r_result[1].score > r_result[2].score /\ r_result[2].score > r_result[3].score
    /\ r_result[1].idx = 3 /\ r_result[2].idx = 1 /\ r_result[3].idx = 2

\* C11: recommended_jobs is stable: two listings with equal scores are
\* returned in their relative corpus order; when user_skills is empty and
\* every score is 0, the result is the corpus in its original order.
C11_StableRanking ==
    (op = "rank" /\ r_out = "returned") =>
        /\ \A i, j \in 1..Len(r_result) :
              (i < j /\ r_result[i].score = r_result[j].score) =>
                  r_result[i].idx < r_result[j].idx
        /\ (r_user = <<>> /\ \A p \in 1..Len(r_sim) : r_sim[p] = 0) =>
              r_result = r_listings

\* C22: recommended_jobs called with an empty corpus returns the empty
\* corpus unchanged, attaches no scores and does not raise.
C22_EmptyCorpusReturned ==
    (op = "rank" /\ r_out # "none" /\ r_listings = <<>>) =>
        /\ r_out = "returned"
        /\ r_result = <<>>
        /\ r_sim = <<>>

(***************************************************************************)
(* Claims about recommended_skills.                                        *)
(***************************************************************************)
SkillsReturned == op = "skills" /\ s_out = "returned"

\* the tokens of the listings and of the user, and the missing ones
TokensOf(text) ==
    LET parts == Split(text, CommaSpace) IN {parts[k] : k \in 1..Len(parts)}
ListingTokens == UNION {TokensOf(s_listings[r]) : r \in 1..Len(s_listings)}
UserTokens == TokensOf(s_user)
MissingTokens == ListingTokens \ UserTokens
ResultTokens == {s_result[i] : i \in 1..Len(s_result)}

\* the limit in force: skill_number when it is a positive integer, 10 when
\* it is None
HasLimit == s_number.kind = "none" \/ (s_number.kind = "int" /\ s_number.n > 0)
Limit == IF s_number.kind = "none" THEN DefaultNumber ELSE s_number.n

\* C13: every token recommended_skills returns occurs in some listing's
\* skill list (split on ", ") and not in the user's (split on ", "), no
\* token is returned twice, and when the missing tokens are no more than
\* the limit, all of them are returned.
C13_MissingTokensOnly ==
    SkillsReturned =>
        /\ ResultTokens \subseteq ListingTokens
        /\ ResultTokens \cap UserTokens = {}
        /\ \A i, j \in 1..Len(s_result) : i # j => s_result[i] # s_result[j]
        /\ (HasLimit /\ Cardinality(MissingTokens) <= Limit) => ResultTokens = MissingTokens

\* the user has one of the 11 corpus tokens and no limit is given: the 10
\* missing ones are returned
C13_Witness ==
    /\ SkillsReturned /\ s_number.kind = "none"
    /\ UserTokens \cap ListingTokens # {}
    /\ Cardinality(MissingTokens) = DefaultNumber
    /\ Len(s_result) = DefaultNumber

\* C14: recommended_skills returns missing tokens in non-increasing order
\* of their corpus frequency, and truncation keeps the most frequent ones;
\* with user skills "python" and the corpus "python, sql", "python, sql",
\* "java" it returns sql, java without a limit and sql with limit 1.
C14_MostFrequentFirst ==
    SkillsReturned =>
        LET counts == skill_counts(all_job_skills(s_listings))
        IN /\ \A i, j \in 1..Len(s_result) :
                 i < j => counts[s_result[i]] >= counts[s_result[j]]
           /\ \A t \in MissingTokens \ ResultTokens :
                 \A i \in 1..Len(s_result) : counts[s_result[i]] >= counts[t]
           /\ (s_user = Python /\ s_listings = ExampleListings) =>
                 /\ s_number.kind = "none" =>
                       s_result = << <<"s", "q", "l">>, <<"j", "a", "v", "a">> >>
                 /\ s_number = Number("int", 1) => s_result = << <<"s", "q", "l">> >>

\* the example, cut to one token
C14_Witness ==
    /\ SkillsReturned
    /\ s_user = Python /\ s_listings = ExampleListings /\ s_number = Number("int", 1)
    /\ s_result = << <<"s", "q", "l">> >>

\* C23: recommended_skills is deterministic in its tie-break: run again with
\* the same user skills, corpus and limit, in the same or in another
\* process, it returns the same sequence, also when the limit cuts between
\* tokens of equal frequency.
C23_SameSequenceAgain ==
    (op = "skills" /\ s_rerun # "none") => s_second = s_result

(***************************************************************************)
(* Claims about the endpoints.                                             *)
(***************************************************************************)
\* C12: for a request that carries skills and a corpus the ranker ranks,
\* recommend-jobs answers 200 with the ranked listings, each with a field
\* Similarity_Score that holds the score the ranker computed: the column
\* name recommended_jobs uses is the field name the serializer reads.
C12_ScoreFieldServed ==
    ( /\ op = "view" /\ v_view = "jobs" /\ v_status # 0
      /\ v_request.hasSkills /\ v_ranked # NoFrame ) =>
        /\ v_status = 200
        /\ Len(v_body.data) = Len(v_ranked.rows)
        /\ \A k \in 1..Len(v_body.data) :
              v_body.data[k]["Similarity_Score"] = v_ranked.rows[k].score

\* what the claimed truncation leaves of n missing tokens: number of them
\* when number is a positive integer, 10 of them otherwise
ClaimedLength(number, n) ==
    IF number.kind = "int" /\ number.n > 0 THEN Min(number.n, n) ELSE Min(DefaultNumber, n)

\* C15: recommended_skills, and the recommend-skills endpoint that coerces
\* skill_count, cut the result to limit entries when limit is a positive
\* integer and to the default of 10 when limit is null or not a positive
\* integer (zero, negative, non-numeric), and do not raise.
C15_LimitOrDefault ==
    /\ (op = "skills" /\ s_out # "none") =>
          /\ s_out = "returned"
          /\ Len(s_result) = ClaimedLength(s_number, Cardinality(MissingTokens))
    /\ ( /\ op = "view" /\ v_view = "skills" /\ v_status # 0
          /\ v_request.hasSkills /\ "Skills" \in v_corpus.columns ) =>
          /\ v_status = 200
          /\ Len(v_body.data) =
                ClaimedLength(CoerceCount(v_request.skill_count),
                              Cardinality(UNION {TokensOf(v_corpus.rows[r].Skills) :
                                                    r \in 1..Len(v_corpus.rows)}
                                          \ TokensOf(v_request.skills)))

\* C16: every corpus that reaches recommended_jobs or recommended_skills
\* has a Skills column: load_job_listings and the two endpoints fill it in
\* from extract_skills(description), row by row, when the source has none.
C16_SkillsBackfilled ==
    /\ (op = "load" /\ l_out # "none") =>
          /\ l_out = "returned"
          /\ "Skills" \in l_listings.columns
          /\ (l_file.exists /\ ~l_file.empty /\ "Skills" \notin l_file.columns) =>
                /\ Len(l_listings.rows) = Len(l_file.rows)
                /\ \A k \in 1..Len(l_listings.rows) :
                      l_listings.rows[k].Skills \in ExtractResults(l_file.rows[k].description)
    /\ (op = "view" /\ v_status # 0 /\ v_corpus # NoFrame) =>
          "Skills" \in v_corpus.columns

\* C26: whenever the corpus file is missing at load time, the 3-row sample
\* corpus is written to the expected path and the load is answered from it,
\* on every corpus-loading path: the two endpoints and load_job_listings.
C26_SampleCorpusPersisted ==
    [][/\ (op = "view" /\ v_status = 0 /\ v_status' # 0
              /\ v_request.hasSkills /\ ~v_file.exists) =>
             (v_file' = SampleFile /\ v_corpus' = ReadCsv(SampleFile))
       /\ (op = "load" /\ l_out = "none" /\ l_out' # "none" /\ ~l_file.exists) =>
             (l_file' = SampleFile /\ l_listings' = ReadCsv(SampleFile))]_vars

\* C27: the core mutates the caller's corpus only to attach the score:
\* recommended_skills leaves the frame it is given as it was (no column
\* added, no row changed), and recommended_jobs changes nothing in it but
\* the score field: the rows keep their order and their other fields.
C27_OnlyScoreAttached ==
    [][/\ (op = "skills" /\ s_out = "none" /\ s_out' # "none") =>
             (s_columns' = s_columns /\ s_listings' = s_listings)
       /\ (op = "rank" /\ r_out = "none" /\ r_out' # "none") =>
             /\ Len(r_listings') = Len(r_listings)
             /\ \A k \in 1..Len(r_listings) :
                   /\ r_listings'[k].idx = r_listings[k].idx
                   /\ r_listings'[k].Skills = r_listings[k].Skills]_vars

(***************************************************************************)
(* Claims about get_job_links and the job-links endpoint.                  *)
(***************************************************************************)
LinksCalled == op = "links" /\ ~k_view /\ k_out # "none"
ProviderCellOf(k) == k_jobs.rows[k].jobProviders
IsPairList(cell) ==
    cell.kind = "list" /\ \A i \in 1..Len(cell.items) : cell.items[i].shape = "pair"
\* the first two provider pairs of a list, as links
FirstTwoPairs(items) ==
    [i \in 1..Min(2, Len(items)) |-> [jobProvider |-> items[i].jobProvider, url |-> items[i].url]]

\* C24: get_job_links keeps at most the first 2 provider pairs of each job,
\* in their order, and appends them in job order; a frame without the
\* column 'jobProviders' gives an empty result and no error.
C24_FirstTwoProviders ==
    LinksCalled =>
        /\ "jobProviders" \notin k_jobs.columns => (k_out = "returned" /\ k_links = <<>>)
        /\ k_out = "returned" => Len(k_links) <= 2 * Len(k_jobs.rows)
        /\ ("jobProviders" \in k_jobs.columns
              /\ \A k \in 1..Len(k_jobs.rows) : IsPairList(ProviderCellOf(k))) =>
              /\ k_out = "returned"
              /\ k_links = Flatten([k \in 1..Len(k_jobs.rows) |->
                                      FirstTwoPairs(ProviderCellOf(k).items)])
C24_Witness ==
    /\ LinksCalled /\ k_out = "returned"
    /\ Len(k_jobs.rows) = 2
    /\ IsPairList(ProviderCellOf(1)) /\ Len(ProviderCellOf(1).items) = 3
    /\ IsPairList(ProviderCellOf(2)) /\ Len(ProviderCellOf(2).items) = 1
    /\ Len(k_links) = 3

\* a provider field that is not parseable, or whose kept part is not a list
\* of {jobProvider, url} pairs
Malformed(cell) ==
    \/ cell.kind # "list"
    \/ \E i \in 1..Min(2, Len(cell.items)) : cell.items[i].shape # "pair"

\* C25: a job whose provider field is malformed is skipped: it contributes
\* no link, the links of the other jobs are returned, and the call does
\* not raise.
C25_MalformedSkipped ==
    (LinksCalled /\ "jobProviders" \in k_jobs.columns) =>
        /\ k_out = "returned"
        /\ k_links = Flatten([k \in 1..Len(k_jobs.rows) |->
                                IF Malformed(ProviderCellOf(k)) THEN <<>>
                                ELSE FirstTwoPairs(ProviderCellOf(k).items)])

====
